---- MODULE Spec2Model ----
(***************************************************************************)
(* Verification model of the 0g storage client (0g_py_storage):           *)
(*   core/merkle.py         LeafNode, Proof, MerkleTree                    *)
(*   core/node_selector.py  segment tree, select_nodes, check_replica      *)
(*   core/uploader.py       split_tasks, upload_task, upload_file          *)
(*   utils/transfer.py      get_shard_configs, segment_range               *)
(* Every subsystem has its own specification over its own variables; the   *)
(* variables of the other subsystems stay at their idle values.            *)
(***************************************************************************)
EXTENDS Integers, Sequences, FiniteSets, TLC

(* ------------------------------------------------------------------ *)
(* Bounds of the Merkle model                                          *)
(* ------------------------------------------------------------------ *)
MaxLeaves == 6
NumContents == 2
MaxBuilds == 2

Contents == 1..NumContents

VARIABLES
    leaves,     \* MerkleTree.leaves: sequence of LeafNode records
    inner,      \* arena of the nodes made by LeafNode.from_left_and_right
    root,       \* MerkleTree.root: a node reference, NoNode = None
    buildRet,   \* what the last build() call returned: "-", "None", "self"
    proof,      \* the result of the last proof_at call
    proofIdx,   \* the index the last proof_at was called with
    verdict,    \* the last Proof.validate call: arguments and result
    builtLen,   \* history: len(leaves) at the last build() call, -1 before the first
    builds      \* history: the number of build() calls, counted up to MaxBuilds

merkleVars == <<leaves, inner, root, buildRet, proof, proofIdx, verdict, builtLen, builds>>

(* ------------------------------------------------------------------ *)
(* Bounds of the node-selection model                                  *)
(* ------------------------------------------------------------------ *)
MaxNodes == 4
MaxShardBits == 2
MaxReplica == 2

VARIABLES
    candidates,      \* the node list as the caller passed it
    nodes,           \* select_nodes: the list object `nodes` (sorted in place)
    expected_replica,\* select_nodes: expected_replica
    segRoot,         \* select_nodes: root, the SegmentTreeNode trie (or NoTrie)
    selected_nodes,  \* select_nodes: selected_nodes
    selI,            \* select_nodes: loop index i (0-based)
    selPc,           \* select_nodes: "idle", "start", "loop", "done"
    selRet           \* select_nodes: the returned (nodes, ok) pair

selVars == <<candidates, nodes, expected_replica, segRoot, selected_nodes, selI, selPc, selRet>>

(* ------------------------------------------------------------------ *)
(* Bounds of the upload-task model                                     *)
(* ------------------------------------------------------------------ *)
MaxFileSegments == 3
MaxTaskSize == 2
MaxRetryOpt == 2

VARIABLES
    upload_task,  \* upload_task: the task dict (clientIndex, taskSize, segIndex, numShard, txSeq)
    fileChunks,   \* file.num_chunks() of the file being uploaded
    readFailAt,   \* the segment whose read raises in the iterator, -1 for none
    retry_opts,   \* upload_task: retry_opts (None or a dict)
    segments,     \* upload_task: the SegmentWithProof records assembled
    attempt,      \* upload_task: attempt
    last_error,   \* upload_task: last_error
    rpcLog,       \* the responses to the upload_segments_by_tx_seq calls issued
    waits,        \* the delay(wait_time) calls made, in order
    taskPc,       \* upload_task: "idle", "assemble", "rpc", "done"
    taskResult    \* upload_task: the returned value

taskVars == <<upload_task, fileChunks, readFailAt, retry_opts, segments, attempt,
              last_error, rpcLog, waits, taskPc, taskResult>>

(* ------------------------------------------------------------------ *)
(* Bounds of the task-splitting model                                  *)
(* ------------------------------------------------------------------ *)
MaxSplitNodes == 2
MaxSplitSegments == 4

VARIABLES
    nodeConfigs,   \* what get_shard_config of each node of self.nodes returns
    shard_configs, \* split_tasks: shard_configs
    splitInfo,     \* split_tasks: info['tx'] (seq, startEntryIndex, size)
    splitOpts,     \* split_tasks: opts (taskSize, expectedReplica)
    client_index,  \* split_tasks: client_index of the loop under way
    upload_tasks,  \* split_tasks: upload_tasks, the per-node task lists
    splitReports,  \* what each get_file_info call of split_tasks answered, in order
    splitPc,       \* split_tasks: "idle", "precheck", "build", "done"
    splitRet       \* split_tasks: the value returned, or the exception raised

splitVars == <<nodeConfigs, shard_configs, splitInfo, splitOpts, client_index,
               upload_tasks, splitReports, splitPc, splitRet>>

(* ------------------------------------------------------------------ *)
(* Bounds of the upload_file model                                     *)
(* ------------------------------------------------------------------ *)
MaxFileNodes == 2
MaxPolls == 2
MaxProcTasks == 3
MaxTaskRpcs == 2

VARIABLES
    fileNodes,    \* len(self.nodes) of the uploader
    fileOpts,     \* upload_file: opts (skipTx, account given) and self.gas_price > 0
    filePc,       \* upload_file: the stage under way
    fileI,        \* the node a loop over self.nodes is at
    polls,        \* wait_for_log_entry: rounds of the while loop so far
    fileRoot,    \* upload_file: root_hash, "" before the tree is built
    info,         \* upload_file: info
    receipt,      \* upload_file: receipt
    failedStage,  \* the stage that failed, "none" if none did
    submitted,    \* the calls of flow.submit made so far
    taskInfo,     \* the info split_tasks made the tasks from, "None" before
    fileRet,      \* upload_file: the (result, error) returned, or the exception raised
    numTasks,     \* upload_file: len(tasks), 0 before split_tasks returned them
    results,      \* process_tasks_in_parallel: results
    callLog       \* the task (0-based) of every upload_segments_by_tx_seq call, in call order

procVars == <<numTasks, results, callLog>>

fileVars == <<fileNodes, fileOpts, filePc, fileI, polls, fileRoot, info, receipt,
              failedStage, submitted, taskInfo, fileRet, procVars>>

(* ------------------------------------------------------------------ *)
(* Bounds of the wait_for_log_entry model                              *)
(* ------------------------------------------------------------------ *)
MaxWaitNodes == 3
MaxWaitPolls == 2

VARIABLES
    waitNodes,          \* len(self.nodes) of the uploader
    finality_required,  \* wait_for_log_entry: finality_required
    waitI,              \* wait_for_log_entry: the node the round is at
    roundLog,           \* what the nodes asked in the latest round answered
    waitPolls,          \* rounds begun again so far, counted up to MaxWaitPolls
    waitPc,             \* wait_for_log_entry: "idle", "wait", "done"
    waitRet             \* wait_for_log_entry: the info returned, or the exception raised

waitVars == <<waitNodes, finality_required, waitI, roundLog, waitPolls, waitPc, waitRet>>

(* ------------------------------------------------------------------ *)
(* Bounds of the Downloader model                                      *)
(* ------------------------------------------------------------------ *)
MaxDlNodes == 2
MaxDlSegments == 2

VARIABLES
    dlNodes,              \* Downloader.nodes, each by the shard config it reports
    dlInfo,               \* the file info query_file found: finalized, tx.size, tx.startEntryIndex
    dlConfigs,            \* Downloader.shard_configs
    start_segment_index,  \* Downloader.start_segment_index
    end_segment_index,    \* Downloader.end_segment_index
    task_ind,             \* download_file_helper: task_ind
    dlI,                  \* download_task: i
    dlTried,              \* download_task: the nodes asked for this segment, with their answers
    dlFile,               \* the writes appended to file_path, in order; <<>> when no file is there
    dlPc,                 \* download_file: "idle", "query", "exist", "configs", "task", "done"
    dlRet                 \* download_file: what it returned, or the exception raised

downloadVars == <<dlNodes, dlInfo, dlConfigs, start_segment_index, end_segment_index,
                  task_ind, dlI, dlTried, dlFile, dlPc, dlRet>>

(* ------------------------------------------------------------------ *)
(* Bounds of the is_valid_config model                                 *)
(* ------------------------------------------------------------------ *)
MaxConfigValue == 9

VARIABLES
    shardConfig, \* is_valid_config: config
    validPc,   \* is_valid_config: "idle", "call", "done"
    valid      \* is_valid_config: the value returned

configVars == <<shardConfig, validPc, valid>>

(* ------------------------------------------------------------------ *)
(* Bounds of the FileIterator model                                    *)
(* ------------------------------------------------------------------ *)
MaxIterChunks == 17
MaxBatchChunks == 2

VARIABLES
    it_file_size,    \* FileIterator.file_size
    it_padded_size,  \* FileIterator.padded_size
    it_batch_size,   \* FileIterator.batch_size
    it_offset,       \* FileIterator.offset
    it_buf,          \* FileIterator.buf: 0 for a zero byte, p + 1 for the file's byte at p
    it_buf_size,     \* FileIterator.buf_size
    it_before,       \* the offset when the latest next() was called
    it_reads,        \* the (start, end) of the read_from_file calls so far
    it_ret           \* what the latest next() returned
iterVars == <<it_file_size, it_padded_size, it_batch_size, it_offset, it_buf, it_buf_size,
              it_before, it_reads, it_ret>>

(* ------------------------------------------------------------------ *)
(* Bounds of the split_nodes model                                     *)
(* ------------------------------------------------------------------ *)
MaxChunkCount == 40
MaxNodeList == 8

VARIABLES
    sn_chunks,           \* split_nodes: chunks
    sn_padded_chunks,    \* split_nodes: padded_chunks
    sn_next_chunk_size,  \* split_nodes: next_chunk_size
    sn_nodes,            \* split_nodes: nodes, kept up to MaxNodeList entries
    sn_pc                \* split_nodes: "idle", "loop", "done"

nodesVars == <<sn_chunks, sn_padded_chunks, sn_next_chunk_size, sn_nodes, sn_pc>>

(* ------------------------------------------------------------------ *)
(* Bounds of the next_segment_index model                              *)
(* ------------------------------------------------------------------ *)
MaxStartIndex == 15

VARIABLES
    nsiConfig,  \* next_segment_index: config
    nsiStart,   \* next_segment_index: start_index
    nsiPc,      \* next_segment_index: "idle", "call", "done"
    nsiRet      \* next_segment_index: the value returned

segIndexVars == <<nsiConfig, nsiStart, nsiPc, nsiRet>>

\* the most insert calls made on one trie
MaxInserts == 4

VARIABLES
    trieRoot,       \* the SegmentTreeNode the insert calls are made on
    trieExpected,   \* expected_replica, the same in every call
    trieCalls,      \* the number of insert calls made so far
    trieInserted    \* the flag the last insert call returned

trieVars == <<trieRoot, trieExpected, trieCalls, trieInserted>>

vars == <<merkleVars, selVars, taskVars, splitVars, fileVars, waitVars, downloadVars, configVars, iterVars, nodesVars, segIndexVars, trieVars>>

\* the variables the steps of one subsystem leave alone
notMerkleVars == <<selVars, taskVars, splitVars, fileVars, waitVars, downloadVars, configVars, iterVars, nodesVars, segIndexVars, trieVars>>

notSelVars == <<merkleVars, taskVars, splitVars, fileVars, waitVars, downloadVars, configVars, iterVars, nodesVars, segIndexVars, trieVars>>

notTaskVars == <<merkleVars, selVars, splitVars, fileVars, waitVars, downloadVars, configVars, iterVars, nodesVars, segIndexVars, trieVars>>

notSplitVars == <<merkleVars, selVars, taskVars, fileVars, waitVars, downloadVars, configVars, iterVars, nodesVars, segIndexVars, trieVars>>

notFileVars == <<merkleVars, selVars, taskVars, splitVars, waitVars, downloadVars, configVars, iterVars, nodesVars, segIndexVars, trieVars>>

notWaitVars == <<merkleVars, selVars, taskVars, splitVars, fileVars, downloadVars, configVars, iterVars, nodesVars, segIndexVars, trieVars>>

notDownloadVars == <<merkleVars, selVars, taskVars, splitVars, fileVars, waitVars, configVars, iterVars, nodesVars, segIndexVars, trieVars>>

notConfigVars == <<merkleVars, selVars, taskVars, splitVars, fileVars, waitVars, downloadVars, iterVars, nodesVars, segIndexVars, trieVars>>

notIterVars == <<merkleVars, selVars, taskVars, splitVars, fileVars, waitVars, downloadVars, configVars, nodesVars, segIndexVars, trieVars>>

notNodesVars == <<merkleVars, selVars, taskVars, splitVars, fileVars, waitVars, downloadVars, configVars, iterVars, segIndexVars, trieVars>>

notSegIndexVars == <<merkleVars, selVars, taskVars, splitVars, fileVars, waitVars, downloadVars, configVars, iterVars, nodesVars, trieVars>>

notTrieVars == <<merkleVars, selVars, taskVars, splitVars, fileVars, waitVars, downloadVars, configVars, iterVars, nodesVars, segIndexVars>>

RECURSIVE Pow2(_)
\* 2^d (num_shard << 1 in pushdown, math.pow(2, d) in the proof position)
Pow2(d) == IF d = 0 THEN 1 ELSE 2 * Pow2(d - 1)

(* ------------------------------------------------------------------ *)
(* utils/crypto.py: Keccak-256 as a free (collision-free) constructor.  *)
(* A content hash is a 1-tuple, a combined hash a 2-tuple of hashes, so *)
(* two hashes are equal iff they were computed from equal inputs.       *)
(* ------------------------------------------------------------------ *)
keccak256_hash(content) == <<content>>

keccak256_hash_combine(l, r) == <<l, r>>

NoHash == <<>>

(* ------------------------------------------------------------------ *)
(* LeafNode.  Node identity is the reference: -i is leaves[i] (1-based) *)
(* and j > 0 is inner[j]; NoNode is None.                               *)
(* ------------------------------------------------------------------ *)
NoNode == 0

LeafNode(h) == [hash |-> h, parent |-> NoNode, left |-> NoNode, right |-> NoNode]

Tree == [leaves |-> leaves, inner |-> inner, root |-> root]

NodeAt(t, ref) == IF ref < 0 THEN t.leaves[-ref] ELSE t.inner[ref]

SetParent(t, ref, p) ==
    IF ref < 0 THEN [t EXCEPT !.leaves[-ref].parent = p]
               ELSE [t EXCEPT !.inner[ref].parent = p]

\* a faulty variant of from_left_and_right: the right child is not told its parent
from_left_and_right_LeftOnly(t, l, r) ==
    LET node == [hash   |-> keccak256_hash_combine(NodeAt(t, l).hash, NodeAt(t, r).hash),
                 parent |-> NoNode, left |-> l, right |-> r]
        t1 == [t EXCEPT !.inner = Append(@, node)]
        id == Len(t1.inner)
    IN SetParent(t1, l, id)

\* LeafNode.from_left_and_right; the new node is inner[Len(inner)]
from_left_and_right(t, l, r) ==
    LET node == [hash   |-> keccak256_hash_combine(NodeAt(t, l).hash, NodeAt(t, r).hash),
                 parent |-> NoNode, left |-> l, right |-> r]
        t1 == [t EXCEPT !.inner = Append(@, node)]
        id == Len(t1.inner)
    IN SetParent(SetParent(t1, l, id), r, id)

\* LeafNode.is_left_side
is_left_side(t, ref) ==
    /\ NodeAt(t, ref).parent # NoNode
    /\ t.inner[NodeAt(t, ref).parent].left = ref

\* MerkleTree.root_hash
root_hash(t) == IF t.root # NoNode THEN NodeAt(t, t.root).hash ELSE NoHash

(* ------------------------------------------------------------------ *)
(* MerkleTree.build                                                     *)
(* ------------------------------------------------------------------ *)
RECURSIVE PairLeaves(_, _)
\* first loop of build: pair the leaves, carry a last single leaf
PairLeaves(s, i) ==
    LET n == Len(s.t.leaves) IN
    IF i >= n THEN s
    ELSE IF i = n - 1
         THEN PairLeaves([s EXCEPT !.queue = Append(@, -(i + 1))], i + 2)
         ELSE LET t1 == from_left_and_right(s.t, -(i + 1), -(i + 2))
              IN PairLeaves([t |-> t1, queue |-> Append(s.queue, Len(t1.inner))], i + 2)

RECURSIVE BuildLevel(_, _)
\* the "process pairs" loop of one level: k pairings still to do
BuildLevel(s, k) ==
    IF k = 0 THEN s
    ELSE LET left  == s.queue[1]
             right == s.queue[2]
             t1 == from_left_and_right(s.t, left, right)
         IN BuildLevel([t |-> t1,
                        queue |-> Append(SubSeq(s.queue, 3, Len(s.queue)), Len(t1.inner))],
                       k - 1)

\* a faulty variant of CarryOdd: the odd entry is left at the head of the queue
CarryOdd_NoRotate(q) == q

\* "handle odd node": the first queue entry moves to the end
CarryOdd(q) == Append(Tail(q), Head(q))

RECURSIVE BuildUpper(_)
\* the "while True" loop of build
BuildUpper(s) ==
    LET num_nodes == Len(s.queue) IN
    IF num_nodes <= 1 THEN s
    ELSE LET s1 == BuildLevel(s, num_nodes \div 2)
             s2 == IF num_nodes % 2 = 1
                   THEN [s1 EXCEPT !.queue = CarryOdd(s1.queue)]
                   ELSE s1
         IN BuildUpper(s2)

\* a faulty variant of build: a tree that has a root is left as it is
build_KeepsRoot(t) ==
    IF t.root # NoNode THEN t
    ELSE LET s == BuildUpper(PairLeaves([t |-> [t EXCEPT !.inner = <<>>], queue |-> <<>>], 0))
         IN [s.t EXCEPT !.root = s.queue[1]]

\* build on a non-empty tree; the nodes of an earlier build are garbage
build(t) ==
    LET s == BuildUpper(PairLeaves([t |-> [t EXCEPT !.inner = <<>>], queue |-> <<>>], 0))
    IN [s.t EXCEPT !.root = s.queue[1]]

(* ------------------------------------------------------------------ *)
(* MerkleTree.proof_at                                                  *)
(* ------------------------------------------------------------------ *)
NoProof == [kind |-> "none", lemma |-> <<>>, path |-> <<>>]

RaisedProof == [kind |-> "raise", lemma |-> <<>>, path |-> <<>>]

Proof(lemma, path) == [kind |-> "proof", lemma |-> lemma, path |-> path]

RECURSIVE ProofWalk(_, _, _, _)
\* the "while current != self.root" loop; a node without parent that is
\* not the root makes current.parent.left raise AttributeError
ProofWalk(t, current, lemma, path) ==
    IF current = t.root
    THEN Proof(Append(lemma, root_hash(t)), path)
    ELSE LET par == NodeAt(t, current).parent IN
         IF par = NoNode THEN RaisedProof
         ELSE IF is_left_side(t, current)
              THEN ProofWalk(t, par, Append(lemma, NodeAt(t, t.inner[par].right).hash),
                             Append(path, TRUE))
              ELSE ProofWalk(t, par, Append(lemma, NodeAt(t, t.inner[par].left).hash),
                             Append(path, FALSE))

\* i is 0-based as in the source
proof_at(t, i) ==
    IF i < 0 \/ i >= Len(t.leaves) THEN RaisedProof
    ELSE IF Len(t.leaves) = 1 THEN Proof(<<root_hash(t)>>, <<>>)
    ELSE ProofWalk(t, -(i + 1), <<t.leaves[i + 1].hash>>, <<>>)

(* ------------------------------------------------------------------ *)
(* Proof.validate and its helpers                                       *)
(* ------------------------------------------------------------------ *)
RECURSIVE CeilLog2From(_, _)
CeilLog2From(n, d) == IF Pow2(d) >= n THEN d ELSE CeilLog2From(n, d + 1)

\* math.ceil(math.log2(n)) for n >= 1
CeilLog2(n) == CeilLog2From(n, 0)

\* int(math.pow(2, left_side_depth) / 2): 2^0 / 2 = 0.5 truncates to 0
left_side_leaf_nodes(n) ==
    LET left_side_depth == CeilLog2(n)
    IN IF left_side_depth = 0 THEN 0 ELSE Pow2(left_side_depth - 1)

PositionRaised == -1

RECURSIVE ProofPosition(_, _, _, _)
\* the loop of calculate_proof_position, i from len(path)-1 down to 0
\* (1-based here); math.log2 raises ValueError for num_leaf_nodes <= 0
ProofPosition(path, i, num_leaf_nodes, position) ==
    IF i = 0 THEN position
    ELSE IF num_leaf_nodes <= 0 THEN PositionRaised
    ELSE LET lsl == left_side_leaf_nodes(num_leaf_nodes) IN
         IF path[i]
         THEN ProofPosition(path, i - 1, lsl, position)
         ELSE ProofPosition(path, i - 1, num_leaf_nodes - lsl, position + lsl)

calculate_proof_position(p, num_leaf_nodes) ==
    ProofPosition(p.path, Len(p.path), num_leaf_nodes, 0)

\* Proof.validate_format: TRUE iff it returns None
validate_format(p) ==
    IF Len(p.path) = 0 THEN Len(p.lemma) = 1
    ELSE Len(p.path) + 2 = Len(p.lemma)

RECURSIVE RootWalk(_, _, _)
RootWalk(p, i, hash_val) ==
    IF i > Len(p.path) THEN hash_val
    ELSE IF p.path[i]
         THEN RootWalk(p, i + 1, keccak256_hash_combine(hash_val, p.lemma[i + 1]))
         ELSE RootWalk(p, i + 1, keccak256_hash_combine(p.lemma[i + 1], hash_val))

\* Proof.validate_root
validate_root(p) == RootWalk(p, 1, p.lemma[1]) = p.lemma[Len(p.lemma)]

\* Proof.validate_hash; "OK" is the None return, "RAISE" an exception
validate_hash(p, rootHash, content_hash, position, num_leaf_nodes) ==
    IF ~validate_format(p) THEN "WRONG_FORMAT"
    ELSE IF content_hash # p.lemma[1] THEN "CONTENT_MISMATCH"
    ELSE IF Len(p.lemma) > 1 /\ rootHash # p.lemma[Len(p.lemma)] THEN "ROOT_MISMATCH"
    ELSE LET proof_position == calculate_proof_position(p, num_leaf_nodes) IN
         IF proof_position = PositionRaised THEN "RAISE"
         ELSE IF proof_position # position THEN "POSITION_MISMATCH"
         ELSE IF ~validate_root(p) THEN "VALIDATION_FAILURE"
         ELSE "OK"

\* Proof.validate
validate(p, rootHash, content, position, num_leaf_nodes) ==
    validate_hash(p, rootHash, keccak256_hash(content), position, num_leaf_nodes)

(* ------------------------------------------------------------------ *)
(* Merkle actions                                                       *)
(* ------------------------------------------------------------------ *)
NoVerdict == [tamper |-> "-", arg |-> 0, result |-> "-"]

MerkleIdle ==
    /\ leaves = <<>>
    /\ inner = <<>>
    /\ root = NoNode
    /\ buildRet = "-"
    /\ proof = NoProof
    /\ proofIdx = 0
    /\ verdict = NoVerdict
    /\ builtLen = -1
    /\ builds = 0

\* MerkleTree.add_leaf
add_leaf(c) ==
    /\ Len(leaves) < MaxLeaves
    /\ leaves' = Append(leaves, LeafNode(keccak256_hash(c)))
    /\ proof' = NoProof /\ proofIdx' = 0 /\ verdict' = NoVerdict
    /\ UNCHANGED <<inner, root, buildRet, builtLen, builds, notMerkleVars>>

\* MerkleTree.add_leaf_by_hash, for the hashes of known contents
add_leaf_by_hash(h) ==
    /\ Len(leaves) < MaxLeaves
    /\ leaves' = Append(leaves, LeafNode(h))
    /\ proof' = NoProof /\ proofIdx' = 0 /\ verdict' = NoVerdict
    /\ UNCHANGED <<inner, root, buildRet, builtLen, builds, notMerkleVars>>

\* MerkleTree.build
Build ==
    /\ IF Len(leaves) = 0
       THEN /\ buildRet' = "None"
            /\ UNCHANGED <<leaves, inner, root>>
       ELSE LET t == build(Tree) IN
            /\ leaves' = t.leaves
            /\ inner' = t.inner
            /\ root' = t.root
            /\ buildRet' = "self"
    /\ proof' = NoProof /\ proofIdx' = 0 /\ verdict' = NoVerdict
    /\ builtLen' = Len(leaves)
    /\ builds' = IF builds < MaxBuilds THEN builds + 1 ELSE builds
    /\ UNCHANGED notMerkleVars

\* MerkleTree.proof_at(i)
ProofAt(i) ==
    /\ proof' = proof_at(Tree, i)
    /\ proofIdx' = i
    /\ verdict' = NoVerdict
    /\ UNCHANGED <<leaves, inner, root, buildRet, builtLen, builds, notMerkleVars>>

\* the proof with bit b (1-based) of its path flipped
FlipPath(p, b) == [p EXCEPT !.path[b] = ~@]

\* hashes a caller may pass as root hash
RootSamples ==
    {keccak256_hash(c) : c \in Contents}
        \cup {keccak256_hash_combine(keccak256_hash(c), keccak256_hash(d)) : c, d \in Contents}

\* the tree has been built since the last leaf was added
Fresh ==
    /\ root # NoNode
    /\ Len(leaves) > 1 => \A k \in 1..Len(leaves) : leaves[k].parent # NoNode

\* the content whose hash leaf i (0-based) carries
ContentOf(i) == leaves[i + 1].hash[1]

\* the proof without the last hash of its lemma
CutLemma(p) == [p EXCEPT !.lemma = SubSeq(@, 1, Len(@) - 1)]

\* the proof with its first path bit flipped, if it has one
FlipFirst(p) == IF Len(p.path) = 0 THEN p ELSE FlipPath(p, 1)

\* the arguments of a call validate(root_hash, content, position,
\* num_leaf_nodes) on the last proof of the tree: genuine, with one of them
\* tampered, or with several at once
ValidateCall(tamper, arg) ==
    LET genuine == [p |-> proof, root_hash |-> root_hash(Tree),
                    content |-> ContentOf(proofIdx), position |-> proofIdx]
    IN CASE tamper = "none" -> genuine
         [] tamper = "content" -> [genuine EXCEPT !.content = arg]
         [] tamper = "root" -> [genuine EXCEPT !.root_hash = arg]
         [] tamper = "path" -> [genuine EXCEPT !.p = FlipPath(proof, arg)]
         [] tamper = "several" ->
                [genuine EXCEPT !.content = arg, !.root_hash = keccak256_hash(arg),
                                !.p = FlipFirst(proof)]
         [] tamper = "cut" ->
                [genuine EXCEPT !.content = arg, !.root_hash = keccak256_hash(arg),
                                !.p = CutLemma(FlipFirst(proof))]

\* Proof.validate(root_hash, content, position, num_leaf_nodes) on the last
\* proof of a built tree
Validate(tamper, arg) ==
    /\ proof.kind = "proof"
    /\ Fresh
    /\ LET call == ValidateCall(tamper, arg)
           res == validate(call.p, call.root_hash, call.content, call.position,
                           Len(leaves))
       IN verdict' = [tamper |-> tamper, arg |-> arg, result |-> res]
    /\ UNCHANGED <<leaves, inner, root, buildRet, proof, proofIdx, builtLen, builds,
                   notMerkleVars>>

ValidateGenuine == Validate("none", 0)

ValidateWrongContent ==
    /\ proof.kind = "proof"
    /\ \E c \in Contents : c # ContentOf(proofIdx) /\ Validate("content", c)

ValidateWrongRoot ==
    \E h \in RootSamples : h # root_hash(Tree) /\ Validate("root", h)

ValidateFlippedPath ==
    /\ proof.kind = "proof"
    /\ \E b \in 1..Len(proof.path) : Validate("path", b)

\* a wrong content, a wrong root hash and a flipped path bit at once, with
\* the lemma whole or cut short
ValidateSeveral ==
    /\ proof.kind = "proof"
    /\ \E c \in Contents : \E tamper \in {"several", "cut"} :
            c # ContentOf(proofIdx) /\ Validate(tamper, c)

NextMerkle ==
    \/ \E c \in Contents : add_leaf(c)
    \/ \E c \in Contents : add_leaf_by_hash(keccak256_hash(c))
    \/ Build
    \/ \E i \in 0..(Len(leaves) - 1) : ProofAt(i)
    \/ ValidateGenuine
    \/ ValidateWrongContent
    \/ ValidateWrongRoot
    \/ ValidateFlippedPath
    \/ ValidateSeveral


(* ------------------------------------------------------------------ *)
(* core/node_selector.py: segment tree                                  *)
(* ------------------------------------------------------------------ *)
\* SegmentTreeNode.__init__; childs = <<>> is None
SegmentTreeNode(num_shard) ==
    [num_shard |-> num_shard, replica |-> 0, lazy_tags |-> 0, childs |-> <<>>]

NoTrie == [num_shard |-> 0, replica |-> 0, lazy_tags |-> 0, childs |-> <<>>]

Min(a, b) == IF a <= b THEN a ELSE b

\* a faulty variant of pushdown: the children are made but the pending tags are dropped
pushdown_NoTags(node) ==
    LET made == IF node.childs = <<>>
                THEN <<SegmentTreeNode(node.num_shard * 2), SegmentTreeNode(node.num_shard * 2)>>
                ELSE node.childs
    IN [node EXCEPT !.childs = made, !.lazy_tags = 0]

\* pushdown(node)
pushdown(node) ==
    LET made == IF node.childs = <<>>
                THEN <<SegmentTreeNode(node.num_shard * 2), SegmentTreeNode(node.num_shard * 2)>>
                ELSE node.childs
        tagged == [i \in 1..2 |->
                     [made[i] EXCEPT !.replica = @ + node.lazy_tags,
                                     !.lazy_tags = @ + node.lazy_tags]]
    IN [node EXCEPT !.childs = tagged, !.lazy_tags = 0]

\* a faulty variant of AggregateReplica: the parent counts a replica as soon as one half has it
AggregateReplica_Max(c0, c1) == IF c0 >= c1 THEN c0 ELSE c1

\* insert, "node.replica = min(node.childs[0].replica, node.childs[1].replica)"
AggregateReplica(c0, c1) == Min(c0, c1)

\* a faulty variant of Accept: the replica is counted at the node but no tag
\* is left for its subtree
Accept_NoTag(node) == [node EXCEPT !.replica = @ + 1]

\* insert lines 93-96, "node.replica += 1; node.lazy_tags += 1"
Accept(node) == [node EXCEPT !.replica = @ + 1, !.lazy_tags = @ + 1]

RECURSIVE insert(_, _, _, _)
\* insert(node, num_shard, shard_id, expected_replica): the node after the
\* call and the returned flag.  For a valid config the recursion ends at the
\* trie level whose num_shard equals the config's.
insert(node, num_shard, shard_id, expected) ==
    IF node.replica >= expected
    THEN [node |-> node, inserted |-> FALSE]
    ELSE IF node.num_shard = num_shard
    THEN [node |-> Accept(node), inserted |-> TRUE]
    ELSE LET pushed == pushdown(node)
             side == (shard_id % 2) + 1
             sub == insert(pushed.childs[side], num_shard, shard_id \div 2, expected)
             linked == [pushed EXCEPT !.childs[side] = sub.node]
         IN [node |-> [linked EXCEPT !.replica =
                          AggregateReplica(linked.childs[1].replica, linked.childs[2].replica)],
             inserted |-> sub.inserted]

(* ------------------------------------------------------------------ *)
(* core/node_selector.py: select_nodes, check_replica, is_valid_config  *)
(* ------------------------------------------------------------------ *)
ShardConfig(numShard, shardId) == [numShard |-> numShard, shardId |-> shardId]

\* n is a power of two
IsPowerOfTwo(n) == n > 0 /\ \E d \in 0..n : d <= CeilLog2(n) /\ Pow2(d) = n

RECURSIVE BitAnd(_, _)
\* a & b for non-negative integers
BitAnd(a, b) ==
    IF a = 0 \/ b = 0 THEN 0
    ELSE (a % 2) * (b % 2) + 2 * BitAnd(a \div 2, b \div 2)

\* a faulty variant of is_valid_config: the shard id is not looked at
is_valid_config_AnyShardId(c) ==
    /\ c.numShard > 0
    /\ BitAnd(c.numShard, c.numShard - 1) = 0

\* is_valid_config
is_valid_config(c) ==
    /\ c.numShard > 0
    /\ BitAnd(c.numShard, c.numShard - 1) = 0
    /\ c.shardId < c.numShard

MaxNumShard == Pow2(MaxShardBits)

\* the shard configs storage nodes announce, within the bounds
ValidConfigs ==
    {c \in [numShard : 1..MaxNumShard, shardId : 0..(MaxNumShard - 1)] : is_valid_config(c)}

\* the sort key (numShard, shardId), compared as Python compares tuples
KeyLess(a, b) ==
    \/ a.numShard < b.numShard
    \/ a.numShard = b.numShard /\ a.shardId < b.shardId

RECURSIVE InsertSorted(_, _)
InsertSorted(sorted, x) ==
    IF sorted = <<>> THEN <<x>>
    ELSE IF KeyLess(x, Head(sorted)) THEN <<x>> \o sorted
    ELSE <<Head(sorted)>> \o InsertSorted(Tail(sorted), x)

RECURSIVE SortFrom(_, _)
SortFrom(list, sorted) ==
    IF list = <<>> THEN sorted ELSE SortFrom(Tail(list), InsertSorted(sorted, Head(list)))

\* a faulty variant of SortNodes: the candidates are inserted in the order given
SortNodes_Unsorted(list) == list

\* nodes.sort(key=(numShard, shardId)): stable, ascending
SortNodes(list) == SortFrom(list, <<>>)

NoReturn == [nodes |-> <<>>, ok |-> FALSE]

SelectIdle ==
    /\ candidates = <<>>
    /\ nodes = <<>>
    /\ expected_replica = 0
    /\ segRoot = NoTrie
    /\ selected_nodes = <<>>
    /\ selI = 0
    /\ selPc = "idle"
    /\ selRet = NoReturn

RECURSIVE SeqsUpTo(_, _)
\* all sequences over S of length at most n
SeqsUpTo(S, n) ==
    IF n = 0 THEN {<<>>}
    ELSE LET shorter == SeqsUpTo(S, n - 1)
         IN shorter \cup {Append(q, x) : q \in shorter, x \in S}

\* a call select_nodes(nodes, expected_replica) about to run
SelectInit ==
    /\ candidates \in SeqsUpTo(ValidConfigs, MaxNodes)
    /\ nodes = candidates
    /\ expected_replica \in 0..MaxReplica
    /\ segRoot = NoTrie
    /\ selected_nodes = <<>>
    /\ selI = 0
    /\ selPc = "start"
    /\ selRet = NoReturn

\* select_nodes lines 140-142: expected_replica == 0 returns ([], False) at once
SelectZeroReplica ==
    /\ selPc = "start"
    /\ expected_replica = 0
    /\ selRet' = [nodes |-> <<>>, ok |-> FALSE]
    /\ selPc' = "done"
    /\ UNCHANGED <<candidates, nodes, expected_replica, segRoot, selected_nodes, selI, notSelVars>>

\* select_nodes lines 144-157: sort in place, make the root, empty selection
SelectSort ==
    /\ selPc = "start"
    /\ expected_replica # 0
    /\ nodes' = SortNodes(nodes)
    /\ segRoot' = SegmentTreeNode(1)
    /\ selected_nodes' = <<>>
    /\ selI' = 0
    /\ selPc' = "loop"
    /\ UNCHANGED <<candidates, expected_replica, selRet, notSelVars>>

\* select_nodes lines 160-175: one iteration of the loop over the candidates
SelectInsert ==
    /\ selPc = "loop"
    /\ selI < Len(nodes)
    /\ LET node == nodes[selI + 1]
           res == insert(segRoot, node.numShard, node.shardId, expected_replica)
           sel == IF res.inserted THEN Append(selected_nodes, node) ELSE selected_nodes
       IN /\ segRoot' = res.node
          /\ selected_nodes' = sel
          /\ IF res.node.replica >= expected_replica
             THEN /\ selRet' = [nodes |-> sel, ok |-> TRUE]
                  /\ selPc' = "done"
                  /\ selI' = selI
             ELSE /\ selI' = selI + 1
                  /\ UNCHANGED <<selRet, selPc>>
    /\ UNCHANGED <<candidates, nodes, expected_replica, notSelVars>>

\* a faulty variant of SelectExhausted: the nodes accepted so far are returned
SelectExhausted_Partial ==
    /\ selPc = "loop"
    /\ selI = Len(nodes)
    /\ selRet' = [nodes |-> selected_nodes, ok |-> FALSE]
    /\ selPc' = "done"
    /\ UNCHANGED <<candidates, nodes, expected_replica, segRoot, selected_nodes, selI, notSelVars>>

\* select_nodes line 178: candidates exhausted, return ([], False)
SelectExhausted ==
    /\ selPc = "loop"
    /\ selI = Len(nodes)
    /\ selRet' = [nodes |-> <<>>, ok |-> FALSE]
    /\ selPc' = "done"
    /\ UNCHANGED <<candidates, nodes, expected_replica, segRoot, selected_nodes, selI, notSelVars>>

NextSelect == SelectZeroReplica \/ SelectSort \/ SelectInsert \/ SelectExhausted

RECURSIVE SelectLoop(_, _, _, _)
\* the loop of select_nodes as a function, for callers that only use the flag
SelectLoop(list, i, trie, expected) ==
    IF i > Len(list) THEN FALSE
    ELSE LET res == insert(trie, list[i].numShard, list[i].shardId, expected)
         IN IF res.node.replica >= expected THEN TRUE
            ELSE SelectLoop(list, i + 1, res.node, expected)

\* check_replica(shard_configs, expected_replica): the flag of select_nodes
check_replica(configs, expected) ==
    IF expected = 0 THEN FALSE
    ELSE SelectLoop(SortNodes(configs), 1, SegmentTreeNode(1), expected)


(* ------------------------------------------------------------------ *)
(* config.py, utils/file_utils.py                                       *)
(* ------------------------------------------------------------------ *)
DEFAULT_CHUNK_SIZE == 256

DEFAULT_SEGMENT_MAX_CHUNKS == 1024

DEFAULT_SEGMENT_SIZE == DEFAULT_CHUNK_SIZE * DEFAULT_SEGMENT_MAX_CHUNKS

\* num_splits(total, unit), Python floor division
num_splits(total, unit) == ((total - 1) \div unit) + 1

RECURSIVE BitOr(_, _)
\* a | b for non-negative integers
BitOr(a, b) ==
    IF a = 0 THEN b
    ELSE IF b = 0 THEN a
    ELSE (IF a % 2 = 1 \/ b % 2 = 1 THEN 1 ELSE 0) + 2 * BitOr(a \div 2, b \div 2)

RECURSIVE ShiftRight(_, _)
\* x >> k for a non-negative integer
ShiftRight(x, k) == IF k = 0 \/ x = 0 THEN x ELSE ShiftRight(x \div 2, k - 1)

\* x |= x >> k
Smear(x, k) == BitOr(x, ShiftRight(x, k))

\* the body of next_pow2: x = input - 1, smeared by 32, 16, 8, 4, 2 and 1
\* bits, plus one; for input 0 the smearing of -1 leaves -1
next_pow2_bits(input) ==
    IF input = 0 THEN 0
    ELSE Smear(Smear(Smear(Smear(Smear(Smear(input - 1, 32), 16), 8), 4), 2), 1) + 1

\* next_pow2_bits on the chunk counts of files of up to MaxFileSegments + 1
\* segments, evaluated once
next_pow2_values ==
    [input \in 0..(DEFAULT_SEGMENT_MAX_CHUNKS * (MaxFileSegments + 1)) |-> next_pow2_bits(input)]

\* next_pow2(input)
next_pow2(input) ==
    IF input \in DOMAIN next_pow2_values THEN next_pow2_values[input]
    ELSE next_pow2_bits(input)

\* compute_padded_size(chunks): (padded_chunks, chunks_next_pow2)
compute_padded_size(chunks) ==
    LET chunks_next_pow2 == next_pow2(chunks) IN
    IF chunks_next_pow2 = chunks
    THEN <<chunks_next_pow2, chunks_next_pow2>>
    ELSE LET min_chunk == IF chunks_next_pow2 >= 16 THEN chunks_next_pow2 \div 16 ELSE 1
         IN <<num_splits(chunks, min_chunk) * min_chunk, chunks_next_pow2>>

(* ------------------------------------------------------------------ *)
(* core/uploader.py: get_segment and upload_task                        *)
(* ------------------------------------------------------------------ *)
NoSegment == [index |-> -1, chunks |-> 0]

\* a faulty variant of get_segment: the last segment keeps its padding
get_segment_NoTruncate(num_chunks, seg_index, readFail) ==
    LET start_seg_index == seg_index * DEFAULT_SEGMENT_MAX_CHUNKS
        padded_chunks == compute_padded_size(num_chunks)[1]
        available == padded_chunks - start_seg_index
        seg_chunks == IF available >= DEFAULT_SEGMENT_MAX_CHUNKS
                      THEN DEFAULT_SEGMENT_MAX_CHUNKS ELSE available
    IN IF start_seg_index >= num_chunks
       THEN [all_data_uploaded |-> TRUE, seg |-> NoSegment, err |-> FALSE]
       ELSE IF seg_index = readFail
       THEN [all_data_uploaded |-> FALSE, seg |-> NoSegment, err |-> TRUE]
       ELSE IF start_seg_index + seg_chunks >= num_chunks
       THEN [all_data_uploaded |-> TRUE,
             seg |-> [index |-> seg_index, chunks |-> seg_chunks],
             err |-> FALSE]
       ELSE [all_data_uploaded |-> FALSE,
             seg |-> [index |-> seg_index, chunks |-> seg_chunks],
             err |-> FALSE]

\* get_segment(file, tree, seg_index): all_data_uploaded, the segment
\* (its index and its length in chunks) and whether an error is returned.
\* The iterator is made with flow padding at offset seg_index * segment
\* size; its read raises for the segment readFail.
get_segment(num_chunks, seg_index, readFail) ==
    LET start_seg_index == seg_index * DEFAULT_SEGMENT_MAX_CHUNKS
        padded_chunks == compute_padded_size(num_chunks)[1]
        available == padded_chunks - start_seg_index
        seg_chunks == IF available >= DEFAULT_SEGMENT_MAX_CHUNKS
                      THEN DEFAULT_SEGMENT_MAX_CHUNKS ELSE available
    IN IF start_seg_index >= num_chunks
       THEN [all_data_uploaded |-> TRUE, seg |-> NoSegment, err |-> FALSE]
       ELSE IF seg_index = readFail
       THEN [all_data_uploaded |-> FALSE, seg |-> NoSegment, err |-> TRUE]
       ELSE IF start_seg_index + seg_chunks >= num_chunks
       THEN [all_data_uploaded |-> TRUE,
             seg |-> [index |-> seg_index, chunks |-> num_chunks - start_seg_index],
             err |-> FALSE]
       ELSE [all_data_uploaded |-> FALSE,
             seg |-> [index |-> seg_index, chunks |-> seg_chunks],
             err |-> FALSE]

RECURSIVE AssembleLoop(_, _, _, _, _, _)
\* the "for i in range(taskSize)" loop of upload_task
AssembleLoop(task, num_chunks, readFail, i, seg_index, segs) ==
    IF i >= task.taskSize THEN [err |-> FALSE, segments |-> segs]
    ELSE LET g == get_segment(num_chunks, seg_index, readFail)
             segs2 == IF g.seg # NoSegment THEN Append(segs, g.seg) ELSE segs
         IN IF g.err THEN [err |-> TRUE, segments |-> segs]
            ELSE IF g.all_data_uploaded THEN [err |-> FALSE, segments |-> segs2]
            ELSE AssembleLoop(task, num_chunks, readFail, i + 1,
                              seg_index + task.numShard, segs2)

\* An error is known by the patterns its message contains.
Error(patterns) == [kind |-> "error", patterns |-> patterns, wrapped |-> FALSE]

NoError == [kind |-> "none", patterns |-> {}, wrapped |-> FALSE]

\* the errors a node's bulk-upload RPC raises here
RpcErrors ==
    { Error({"too many data writing"}),
      Error({"already uploaded and finalized", "already uploaded"}),
      Error({"invalid params", "already uploaded"}),
      Error({"invalid params"}),
      Error({}),
      Error({"too many data writing", "already uploaded and finalized", "already uploaded"}) }

\* the exception upload_task raises itself for a null response
NullResponseError == Error({"returned null for upload segments"})

\* is_already_uploaded_error
is_already_uploaded_error(error) ==
    \/ "already uploaded and finalized" \in error.patterns
    \/ "invalid params" \in error.patterns /\ "already uploaded" \in error.patterns

\* a faulty variant of is_retryable_error: every error is retried
is_retryable_error_Always(error) == TRUE

\* is_retryable_error
is_retryable_error(error) ==
    \/ "too many data writing" \in error.patterns
    \/ "returned null for upload segments" \in error.patterns

DefaultTooManyDataRetries == 3

DefaultInterval == 3

NoRetryOpts == [given |-> FALSE, TooManyDataRetries |-> 0]

\* retry_opts.get('TooManyDataRetries', 3) if retry_opts else 3
max_retries(opts) == IF opts.given THEN opts.TooManyDataRetries
                     ELSE DefaultTooManyDataRetries

\* a faulty variant of RetryAllowed: gives up one attempt early
RetryAllowed_GivesUpEarly == attempt < max_retries(retry_opts) - 2

\* "if attempt < max_retries - 1" in the retryable branch
RetryAllowed == attempt < max_retries(retry_opts) - 1

\* "while attempt < max_retries"
LoopCondition == attempt < max_retries(retry_opts)

NoTask == [clientIndex |-> 0, taskSize |-> 0, segIndex |-> 0, numShard |-> 0, txSeq |-> 0]

NoResult == [kind |-> "-", error |-> NoError]

TaskIdle ==
    /\ upload_task = NoTask
    /\ fileChunks = 0
    /\ readFailAt = -1
    /\ retry_opts = NoRetryOpts
    /\ segments = <<>>
    /\ attempt = 0
    /\ last_error = NoError
    /\ rpcLog = <<>>
    /\ waits = <<>>
    /\ taskPc = "idle"
    /\ taskResult = NoResult

\* chunk counts of files of up to MaxFileSegments segments: the first and
\* the last count that need each number of segments
FileChunkCounts ==
    UNION {{DEFAULT_SEGMENT_MAX_CHUNKS * (k - 1) + 1, DEFAULT_SEGMENT_MAX_CHUNKS * k}
           : k \in 1..MaxFileSegments}

\* the calls upload_task(file, tree, upload_task, retry_opts) made here
UploadTasks ==
    [clientIndex : {0}, taskSize : 1..MaxTaskSize,
     segIndex : 0..(MaxFileSegments - 1), numShard : {1, 2}, txSeq : {1}]

\* the segment whose read fails, -1 for none
ReadFails == -1..(MaxFileSegments - 1)

RetryOptions == {NoRetryOpts} \cup [given : {TRUE}, TooManyDataRetries : 0..MaxRetryOpt]

TaskInputs ==
    [task : UploadTasks, chunks : FileChunkCounts, readFail : ReadFails, opts : RetryOptions]

\* what the assembly loop of the call in gives
AssembledFor(in) ==
    AssembleLoop(in.task, in.chunks, in.readFail, 0, in.task.segIndex, <<>>)

\* the call is entered with its arguments
Enter ==
    /\ upload_task' \in UploadTasks
    /\ fileChunks' \in FileChunkCounts
    /\ readFailAt' \in ReadFails
    /\ retry_opts' \in RetryOptions

\* the arguments the call was entered with, one of TaskInputs
Entered ==
    [task |-> upload_task', chunks |-> fileChunks', readFail |-> readFailAt',
     opts |-> retry_opts']

\* upload_task lines 636-646: get_segment returned an error, which is returned
AssembleError ==
    /\ taskPc = "idle"
    /\ Enter
    /\ AssembledFor(Entered).err
    /\ taskResult' = [kind |-> "error", error |-> Error({})]
    /\ taskPc' = "done"
    /\ UNCHANGED <<segments, attempt, last_error, rpcLog, waits, notTaskVars>>

\* upload_task lines 636-667: segments assembled, the retry loop is entered
AssembleOk ==
    /\ taskPc = "idle"
    /\ Enter
    /\ ~AssembledFor(Entered).err
    /\ 0 < max_retries(Entered.opts)
    /\ segments' = AssembledFor(Entered).segments
    /\ attempt' = 0
    /\ last_error' = NoError
    /\ taskPc' = "rpc"
    /\ UNCHANGED <<rpcLog, waits, taskResult, notTaskVars>>

\* upload_task lines 667, 731-737: max_retries <= 0, the loop body never runs
NoAttemptAllowed ==
    /\ taskPc = "idle"
    /\ Enter
    /\ ~AssembledFor(Entered).err
    /\ ~(0 < max_retries(Entered.opts))
    /\ segments' = AssembledFor(Entered).segments
    /\ taskResult' = [kind |-> "error", error |-> Error({})]
    /\ taskPc' = "done"
    /\ UNCHANGED <<attempt, last_error, rpcLog, waits, notTaskVars>>

\* a response of upload_segments_by_tx_seq: a result, null, or an error
Responses == {[kind |-> "result", patterns |-> {}, wrapped |-> FALSE],
              [kind |-> "null", patterns |-> {}, wrapped |-> FALSE]} \cup RpcErrors

\* the exception the handler at line 685 sees for a response that is not a result
RaisedBy(resp) == IF resp.kind = "null" THEN NullResponseError ELSE resp

\* lines 670-683: the call returns a result, which is returned
RpcSuccess ==
    /\ taskPc = "rpc"
    /\ LoopCondition
    /\ \E resp \in Responses :
          /\ resp.kind = "result"
          /\ rpcLog' = Append(rpcLog, resp)
    /\ taskResult' = [kind |-> "result", error |-> NoError]
    /\ taskPc' = "done"
    /\ UNCHANGED <<upload_task, fileChunks, readFailAt, retry_opts, segments, attempt,
                   last_error, waits, notTaskVars>>

\* lines 685-693: the error says the data is already uploaded: return 0
RpcAlreadyUploaded ==
    /\ taskPc = "rpc"
    /\ LoopCondition
    /\ \E resp \in Responses :
          /\ resp.kind # "result"
          /\ is_already_uploaded_error(RaisedBy(resp))
          /\ rpcLog' = Append(rpcLog, resp)
          /\ last_error' = RaisedBy(resp)
    /\ taskResult' = [kind |-> "zero", error |-> NoError]
    /\ taskPc' = "done"
    /\ UNCHANGED <<upload_task, fileChunks, readFailAt, retry_opts, segments, attempt,
                   waits, notTaskVars>>

\* lines 699-719: a transient error with attempts left: wait and try again
RpcTransientRetry ==
    /\ taskPc = "rpc"
    /\ LoopCondition
    /\ \E resp \in Responses :
          /\ resp.kind # "result"
          /\ ~is_already_uploaded_error(RaisedBy(resp))
          /\ is_retryable_error(RaisedBy(resp))
          /\ rpcLog' = Append(rpcLog, resp)
          /\ last_error' = RaisedBy(resp)
    /\ RetryAllowed
    /\ waits' = Append(waits, DefaultInterval * (attempt + 1))
    /\ attempt' = attempt + 1
    /\ UNCHANGED <<upload_task, fileChunks, readFailAt, retry_opts, segments,
                   taskPc, taskResult, notTaskVars>>

\* lines 720-724: a transient error on the last attempt
RpcTransientExhausted ==
    /\ taskPc = "rpc"
    /\ LoopCondition
    /\ \E resp \in Responses :
          /\ resp.kind # "result"
          /\ ~is_already_uploaded_error(RaisedBy(resp))
          /\ is_retryable_error(RaisedBy(resp))
          /\ rpcLog' = Append(rpcLog, resp)
          /\ last_error' = RaisedBy(resp)
          /\ taskResult' = [kind |-> "error", error |-> [RaisedBy(resp) EXCEPT !.wrapped = TRUE]]
    /\ ~RetryAllowed
    /\ taskPc' = "done"
    /\ UNCHANGED <<upload_task, fileChunks, readFailAt, retry_opts, segments, attempt,
                   waits, notTaskVars>>

\* lines 725-729: any other error is returned at once
RpcNonRetryable ==
    /\ taskPc = "rpc"
    /\ LoopCondition
    /\ \E resp \in Responses :
          /\ resp.kind # "result"
          /\ ~is_already_uploaded_error(RaisedBy(resp))
          /\ ~is_retryable_error(RaisedBy(resp))
          /\ rpcLog' = Append(rpcLog, resp)
          /\ last_error' = RaisedBy(resp)
          /\ taskResult' = [kind |-> "error", error |-> RaisedBy(resp)]
    /\ taskPc' = "done"
    /\ UNCHANGED <<upload_task, fileChunks, readFailAt, retry_opts, segments, attempt,
                   waits, notTaskVars>>

NextTask ==
    \/ AssembleError
    \/ AssembleOk
    \/ NoAttemptAllowed
    \/ RpcSuccess
    \/ RpcAlreadyUploaded
    \/ RpcTransientRetry
    \/ RpcTransientExhausted
    \/ RpcNonRetryable

(* ------------------------------------------------------------------ *)
(* utils/transfer.py and core/uploader.py: split_tasks                  *)
(* ------------------------------------------------------------------ *)
\* get_split_num(total, unit)
get_split_num(total, unit) == ((total - 1) \div unit) + 1

\* segment_range(start_chunk_index, file_size)
segment_range(start_chunk_index, file_size) ==
    LET total_chunks == get_split_num(file_size, DEFAULT_CHUNK_SIZE)
        end_chunk_index == start_chunk_index + total_chunks - 1
    IN <<start_chunk_index \div DEFAULT_SEGMENT_MAX_CHUNKS,
         end_chunk_index \div DEFAULT_SEGMENT_MAX_CHUNKS>>

\* "async def get_shard_configs" called without await gives a coroutine object
Coroutine == [kind |-> "coroutine", configs |-> <<>>]

NoConfigs == [kind |-> "None", configs |-> <<>>]

ConfigList(configs) == [kind |-> "list", configs |-> configs]

RECURSIVE ShardConfigsFrom(_, _)
\* the body of get_shard_configs: None as soon as one config is invalid
ShardConfigsFrom(configs, acc) ==
    IF configs = <<>> THEN ConfigList(acc)
    ELSE IF ~is_valid_config(Head(configs)) THEN NoConfigs
    ELSE ShardConfigsFrom(Tail(configs), Append(acc, Head(configs)))

\* what awaiting get_shard_configs(nodes) gives
get_shard_configs(configs) == ShardConfigsFrom(configs, <<>>)

\* a faulty variant of next_segment_index: rounds down to the shard's index
next_segment_index_RoundsDown(config, start_index) ==
    IF config.numShard < 2 THEN start_index
    ELSE ((start_index - config.shardId) \div config.numShard)
            * config.numShard + config.shardId

\* next_segment_index(config, start_index)
next_segment_index(config, start_index) ==
    IF config.numShard < 2 THEN start_index
    ELSE ((start_index + config.numShard - 1 - config.shardId) \div config.numShard)
            * config.numShard + config.shardId

RECURSIVE NodeTasks(_, _, _, _, _, _, _)
\* lines 500-511: the tasks of one node, seg_index stepping by
\* numShard * taskSize up to end_segment_index
NodeTasks(index, shard_config, seg_index, start, end, opts, tx_seq) ==
    IF seg_index > end THEN <<>>
    ELSE <<[clientIndex |-> index, taskSize |-> opts.taskSize,
            segIndex |-> seg_index - start, numShard |-> shard_config.numShard,
            txSeq |-> tx_seq]>>
         \o NodeTasks(index, shard_config,
                      seg_index + shard_config.numShard * opts.taskSize,
                      start, end, opts, tx_seq)

RECURSIVE InsertByLen(_, _)
InsertByLen(sorted, x) ==
    IF sorted = <<>> THEN <<x>>
    ELSE IF Len(x) < Len(Head(sorted)) THEN <<x>> \o sorted
    ELSE <<Head(sorted)>> \o InsertByLen(Tail(sorted), x)

RECURSIVE SortByLen(_)
\* upload_tasks.sort(key=lambda a: len(a)): stable, shortest list first
SortByLen(lists) ==
    IF lists = <<>> THEN <<>>
    ELSE InsertByLen(SortByLen(SubSeq(lists, 1, Len(lists) - 1)), lists[Len(lists)])

RECURSIVE InterleaveRow(_, _, _)
\* the inner loop "for i in range(len(upload_tasks))" for one task_index
InterleaveRow(lists, task_index, i) ==
    IF i > Len(lists) THEN <<>>
    ELSE (IF task_index <= Len(lists[i]) THEN <<lists[i][task_index]>> ELSE <<>>)
         \o InterleaveRow(lists, task_index, i + 1)

RECURSIVE InterleaveFrom(_, _, _)
InterleaveFrom(lists, task_index, rows) ==
    IF task_index > rows THEN <<>>
    ELSE InterleaveRow(lists, task_index, 1) \o InterleaveFrom(lists, task_index + 1, rows)

\* lines 534-537: "for task_index in range(len(upload_tasks[0]))" over the
\* sorted lists
Interleave(lists) == InterleaveFrom(lists, 1, Len(lists[1]))

NoSplit == [kind |-> "-", tasks |-> <<>>]

Returned(tasks) == [kind |-> "list", tasks |-> tasks]

ReturnedNone == [kind |-> "None", tasks |-> <<>>]

Raised(what) == [kind |-> what, tasks |-> <<>>]

SplitIdle ==
    /\ splitReports = <<>>
    /\ nodeConfigs = <<>>
    /\ shard_configs = NoConfigs
    /\ splitInfo = [seq |-> 0, startEntryIndex |-> 0, size |-> 0]
    /\ splitOpts = [taskSize |-> 0, expectedReplica |-> 0]
    /\ client_index = 0
    /\ upload_tasks = <<>>
    /\ splitPc = "idle"
    /\ splitRet = NoSplit

\* the shard configs the nodes report here, one of them invalid
SplitConfigs == {ShardConfig(1, 0), ShardConfig(2, 0), ShardConfig(2, 1), ShardConfig(0, 0)}

\* a call split_tasks(info, tree, opts) about to run on 1..MaxSplitNodes nodes
SplitInit ==
    /\ splitReports = <<>>
    /\ nodeConfigs \in SeqsUpTo(SplitConfigs, MaxSplitNodes) \ {<<>>}
    /\ shard_configs = NoConfigs
    /\ splitInfo \in [seq : {1}, startEntryIndex : {0, DEFAULT_SEGMENT_MAX_CHUNKS},
                      size : {k * DEFAULT_SEGMENT_SIZE : k \in 1..MaxSplitSegments}]
    /\ splitOpts \in [taskSize : 1..MaxTaskSize, expectedReplica : {1, 2}]
    /\ client_index = 0
    /\ upload_tasks = <<>>
    /\ splitPc = "idle"
    /\ splitRet = NoSplit

\* lines 457-463 as written: get_shard_configs is not awaited, so
\* shard_configs is a coroutine object, which is not None, and
\* check_replica raises TypeError at len(shard_configs)
SplitUnawaited ==
    /\ splitPc = "idle"
    /\ UNCHANGED splitReports
    /\ shard_configs' = Coroutine
    /\ splitRet' = Raised("TypeError")
    /\ splitPc' = "done"
    /\ UNCHANGED <<nodeConfigs, splitInfo, splitOpts, client_index, upload_tasks,
                   notSplitVars>>

\* lines 457-460 on the value awaiting get_shard_configs gives: None
SplitNoConfigs ==
    /\ splitPc = "idle"
    /\ UNCHANGED splitReports
    /\ get_shard_configs(nodeConfigs) = NoConfigs
    /\ shard_configs' = NoConfigs
    /\ splitRet' = ReturnedNone
    /\ splitPc' = "done"
    /\ UNCHANGED <<nodeConfigs, splitInfo, splitOpts, client_index, upload_tasks,
                   notSplitVars>>

\* lines 462-465 on the awaited list: check_replica fails
SplitNotEnoughReplica ==
    /\ splitPc = "idle"
    /\ UNCHANGED splitReports
    /\ get_shard_configs(nodeConfigs) # NoConfigs
    /\ ~check_replica(get_shard_configs(nodeConfigs).configs, splitOpts.expectedReplica)
    /\ shard_configs' = get_shard_configs(nodeConfigs)
    /\ splitRet' = ReturnedNone
    /\ splitPc' = "done"
    /\ UNCHANGED <<nodeConfigs, splitInfo, splitOpts, client_index, upload_tasks,
                   notSplitVars>>

\* lines 462-477 on the awaited list: the replica check passes
SplitEnter ==
    /\ splitPc = "idle"
    /\ UNCHANGED splitReports
    /\ get_shard_configs(nodeConfigs) # NoConfigs
    /\ check_replica(get_shard_configs(nodeConfigs).configs, splitOpts.expectedReplica)
    /\ shard_configs' = get_shard_configs(nodeConfigs)
    /\ client_index' = 0
    /\ upload_tasks' = <<>>
    /\ splitPc' = "precheck"
    /\ UNCHANGED <<nodeConfigs, splitInfo, splitOpts, splitRet, notSplitVars>>

\* the return of lines 525-540 for the per-node lists built
SplitResult(lists) ==
    IF Len(lists) = 0 THEN <<>> ELSE Interleave(SortByLen(lists))

\* lines 481-486: the first loop asks a node, which has not finalized the file
PrecheckContinue ==
    /\ splitPc = "precheck"
    /\ splitReports' = Append(splitReports, [node |-> client_index, finalized |-> FALSE])
    /\ IF client_index + 1 < Len(shard_configs.configs)
       THEN client_index' = client_index + 1 /\ splitPc' = "precheck"
       ELSE client_index' = 0 /\ splitPc' = "build"
    /\ UNCHANGED <<nodeConfigs, shard_configs, splitInfo, splitOpts, upload_tasks,
                   splitRet, notSplitVars>>

\* lines 481-486: a node reports the file finalized, split_tasks returns []
PrecheckFinalized ==
    /\ splitPc = "precheck"
    /\ splitReports' = Append(splitReports, [node |-> client_index, finalized |-> TRUE])
    /\ splitRet' = Returned(<<>>)
    /\ splitPc' = "done"
    /\ UNCHANGED <<nodeConfigs, shard_configs, splitInfo, splitOpts, client_index,
                   upload_tasks, notSplitVars>>

\* line 482: the RPC raises, nothing in split_tasks catches it
PrecheckRaises ==
    /\ splitPc = "precheck"
    /\ UNCHANGED splitReports
    /\ splitRet' = Raised("RpcError")
    /\ splitPc' = "done"
    /\ UNCHANGED <<nodeConfigs, shard_configs, splitInfo, splitOpts, client_index,
                   upload_tasks, notSplitVars>>

\* the second loop moves to the next node, or the lists are interleaved
\* and returned after the last one (lines 521-540)
BuildAdvance(lists) ==
    /\ upload_tasks' = IF client_index + 1 < Len(shard_configs.configs)
                       THEN lists ELSE SortByLen(lists)
    /\ IF client_index + 1 < Len(shard_configs.configs)
       THEN /\ client_index' = client_index + 1
            /\ UNCHANGED <<splitPc, splitRet>>
       ELSE /\ client_index' = client_index
            /\ splitRet' = Returned(SplitResult(lists))
            /\ splitPc' = "done"

\* lines 494-496: the node now reports the file finalized and is skipped
BuildSkipFinalized ==
    /\ splitPc = "build"
    /\ splitReports' = Append(splitReports, [node |-> client_index, finalized |-> TRUE])
    /\ BuildAdvance(upload_tasks)
    /\ UNCHANGED <<nodeConfigs, shard_configs, splitInfo, splitOpts, notSplitVars>>

\* lines 494-515: the tasks of the node are made and kept if there are any
BuildTasks ==
    /\ splitPc = "build"
    /\ splitReports' = Append(splitReports, [node |-> client_index, finalized |-> FALSE])
    /\ LET shard_config == shard_configs.configs[client_index + 1]
           range == segment_range(splitInfo.startEntryIndex, splitInfo.size)
           tasks == NodeTasks(client_index, shard_config,
                              next_segment_index(shard_config, range[1]),
                              range[1], range[2], splitOpts, splitInfo.seq)
       IN BuildAdvance(IF Len(tasks) > 0 THEN Append(upload_tasks, tasks)
                       ELSE upload_tasks)
    /\ UNCHANGED <<nodeConfigs, shard_configs, splitInfo, splitOpts, notSplitVars>>

\* line 494: the RPC raises, nothing in split_tasks catches it
BuildRaises ==
    /\ splitPc = "build"
    /\ UNCHANGED splitReports
    /\ splitRet' = Raised("RpcError")
    /\ splitPc' = "done"
    /\ UNCHANGED <<nodeConfigs, shard_configs, splitInfo, splitOpts, client_index,
                   upload_tasks, notSplitVars>>

NextSplit ==
    \/ SplitUnawaited
    \/ SplitNoConfigs
    \/ SplitNotEnoughReplica
    \/ SplitEnter
    \/ PrecheckContinue
    \/ PrecheckFinalized
    \/ PrecheckRaises
    \/ BuildSkipFinalized
    \/ BuildTasks
    \/ BuildRaises

(* ------------------------------------------------------------------ *)
(* core/uploader.py: upload_file and the stages it calls                *)
(* ------------------------------------------------------------------ *)
NoFileRet == [kind |-> "-", txHash |-> "", rootHash |-> "", error |-> "None"]

UploadIdle ==
    /\ fileNodes = 0
    /\ fileOpts = [skipTx |-> FALSE, account |-> FALSE, gasPriceSet |-> FALSE]
    /\ filePc = "idle"
    /\ fileI = 0
    /\ polls = 0
    /\ fileRoot = ""
    /\ info = "None"
    /\ receipt = "None"
    /\ failedStage = "none"
    /\ submitted = 0
    /\ taskInfo = "None"
    /\ fileRet = NoFileRet
    /\ numTasks = 0
    /\ results = <<>>
    /\ callLog = <<>>

\* a call upload_file(file, opts, retry_opts) about to run
UploadInit ==
    /\ fileNodes \in 0..MaxFileNodes
    /\ fileOpts \in [skipTx : BOOLEAN, account : BOOLEAN, gasPriceSet : BOOLEAN]
    /\ filePc = "idle"
    /\ fileI = 0
    /\ polls = 0
    /\ fileRoot = ""
    /\ info = "None"
    /\ receipt = "None"
    /\ failedStage = "none"
    /\ submitted = 0
    /\ taskInfo = "None"
    /\ fileRet = NoFileRet
    /\ numTasks = 0
    /\ results = <<>>
    /\ callLog = <<>>

\* a stage fails and upload_file returns (result, error)
FailReturn(stage, tx_hash, error) ==
    /\ failedStage' = stage
    /\ fileRet' = [kind |-> "return", txHash |-> tx_hash, rootHash |-> fileRoot,
                    error |-> error]
    /\ filePc' = "done"

\* a stage fails with an exception nothing in upload_file catches
FailRaise(stage, error) ==
    /\ failedStage' = stage
    /\ fileRet' = [kind |-> "raise", txHash |-> "", rootHash |-> "", error |-> error]
    /\ filePc' = "done"

\* a faulty variant of NeedsTransaction: skipTx alone skips the transaction
NeedsTransaction_SkipAlone(found) == ~fileOpts.skipTx

\* line 144: the transaction branch is taken unless skipTx is set and an
\* existing file info was found
NeedsTransaction(found) == ~fileOpts.skipTx \/ ~found

\* line 179: tx_hash
TxHash == IF receipt = "None" THEN "" ELSE "hash"

\* lines 118-123: file.merkle_tree() gives an error
MerkleTreeFails ==
    /\ filePc = "idle"
    /\ FailReturn("merkle", "", "Failed to create Merkle tree")
    /\ UNCHANGED <<fileNodes, fileOpts, fileI, polls, fileRoot, info, receipt, submitted, taskInfo, procVars, notFileVars>>

\* lines 118-141: the tree is built, find_existing_file_info starts
MerkleTreeBuilt ==
    /\ filePc = "idle"
    /\ fileRoot' = "root"
    /\ fileI' = 0
    /\ filePc' = IF fileNodes > 0 THEN "find"
                 ELSE IF NeedsTransaction(FALSE) THEN "submission" ELSE "split"
    /\ UNCHANGED <<fileNodes, fileOpts, polls, info, receipt, failedStage, fileRet,
                   submitted, taskInfo, procVars, notFileVars>>

\* find_existing_file_info: a node has no info, or its RPC raises (caught)
FindExistingMiss ==
    /\ filePc = "find"
    /\ IF fileI + 1 < fileNodes
       THEN fileI' = fileI + 1 /\ filePc' = "find"
       ELSE /\ fileI' = 0
            /\ filePc' = IF NeedsTransaction(FALSE) THEN "submission" ELSE "split"
    /\ UNCHANGED <<fileNodes, fileOpts, polls, fileRoot, info, receipt, failedStage,
                   fileRet, submitted, taskInfo, procVars, notFileVars>>

\* find_existing_file_info: a node has the info; line 144 decides on a
\* transaction
FindExistingHit ==
    /\ filePc = "find"
    /\ info' = "existing"
    /\ filePc' = IF NeedsTransaction(TRUE) THEN "submission" ELSE "split"
    /\ fileI' = 0
    /\ UNCHANGED <<fileNodes, fileOpts, polls, fileRoot, receipt, failedStage, fileRet,
                   submitted, taskInfo, procVars, notFileVars>>

\* lines 146-151: create_submission gives an error
CreateSubmissionFails ==
    /\ filePc = "submission"
    /\ FailReturn("submission", "", "Failed to create submission")
    /\ UNCHANGED <<fileNodes, fileOpts, fileI, polls, fileRoot, info, receipt, submitted, taskInfo, procVars, notFileVars>>

CreateSubmissionOk ==
    /\ filePc = "submission"
    /\ filePc' = "submit"
    /\ UNCHANGED <<fileNodes, fileOpts, fileI, polls, fileRoot, info, receipt,
                   failedStage, fileRet, submitted, taskInfo, procVars, notFileVars>>

\* submit_transaction lines 255-257: no account in opts
SubmitNoAccount ==
    /\ filePc = "submit"
    /\ ~fileOpts.account
    /\ FailReturn("submit", "", "Account required for transaction")
    /\ UNCHANGED <<fileNodes, fileOpts, fileI, polls, fileRoot, info, receipt, submitted, taskInfo, procVars, notFileVars>>

\* submit_transaction line 270: self.web3.eth.gas_price is an RPC call
\* outside the try block
SubmitGasPriceRaises ==
    /\ filePc = "submit"
    /\ fileOpts.account
    /\ ~fileOpts.gasPriceSet
    /\ FailRaise("submit", "RpcError")
    /\ UNCHANGED <<fileNodes, fileOpts, fileI, polls, fileRoot, info, receipt, submitted, taskInfo, procVars, notFileVars>>

\* submit_transaction lines 271-275: the suggested gas price is None
SubmitGasPriceNone ==
    /\ filePc = "submit"
    /\ fileOpts.account
    /\ ~fileOpts.gasPriceSet
    /\ FailReturn("submit", "", "Failed to get suggested gas price")
    /\ UNCHANGED <<fileNodes, fileOpts, fileI, polls, fileRoot, info, receipt, submitted, taskInfo, procVars, notFileVars>>

\* submit_transaction lines 286-290: flow.submit raises, which is caught
SubmitFlowFails ==
    /\ filePc = "submit"
    /\ fileOpts.account
    /\ submitted' = submitted + 1
    /\ FailReturn("submit", "", "Failed to submit transaction")
    /\ UNCHANGED <<fileNodes, fileOpts, fileI, polls, fileRoot, info, receipt, taskInfo, procVars, notFileVars>>

SubmitOk ==
    /\ filePc = "submit"
    /\ fileOpts.account
    /\ submitted' = submitted + 1
    /\ receipt' = "receipt"
    /\ filePc' = "logs"
    /\ UNCHANGED <<fileNodes, fileOpts, fileI, polls, fileRoot, info, failedStage,
                   fileRet, taskInfo, procVars, notFileVars>>

\* lines 165-170: process_logs finds no Submit event
ProcessLogsEmpty ==
    /\ filePc = "logs"
    /\ FailReturn("txSeq", "", "Failed to get txSeqs")
    /\ UNCHANGED <<fileNodes, fileOpts, fileI, polls, fileRoot, info, receipt, submitted, taskInfo, procVars, notFileVars>>

\* lines 176-179: wait_for_log_entry(tx_seq, False) starts its first round
ProcessLogsOk ==
    /\ filePc = "logs"
    /\ filePc' = "wait"
    /\ fileI' = 0
    /\ polls' = 1
    /\ info' = "None"
    /\ UNCHANGED <<fileNodes, fileOpts, fileRoot, receipt, failedStage, fileRet,
                   submitted, taskInfo, procVars, notFileVars>>

\* wait_for_log_entry with no node: the loop ends at once with info None
WaitNoNodes ==
    /\ filePc = "wait"
    /\ fileNodes = 0
    /\ filePc' = "split"
    /\ UNCHANGED <<fileNodes, fileOpts, fileI, polls, fileRoot, info, receipt,
                   failedStage, fileRet, submitted, taskInfo, procVars, notFileVars>>

\* lines 185-186: there is no info to split tasks from
NoLogEntry ==
    /\ filePc = "split"
    /\ info = "None"
    /\ FailReturn("wait", TxHash, "Failed to get log entry")
    /\ UNCHANGED <<fileNodes, fileOpts, fileI, polls, fileRoot, info, receipt,
                   submitted, taskInfo, procVars, notFileVars>>

\* wait_for_log_entry lines 354-371: the node has the log entry
WaitInfoAvailable ==
    /\ filePc = "wait"
    /\ fileI < fileNodes
    /\ info' = "entry"
    /\ IF fileI + 1 < fileNodes
       THEN fileI' = fileI + 1 /\ filePc' = "wait"
       ELSE fileI' = 0 /\ filePc' = "split"
    /\ UNCHANGED <<fileNodes, fileOpts, polls, fileRoot, receipt, failedStage, fileRet,
                   submitted, taskInfo, procVars, notFileVars>>

\* wait_for_log_entry lines 357-365: the entry is not there yet, the status
\* is read and the next round starts after delay(1)
WaitInfoUnavailable ==
    /\ filePc = "wait"
    /\ fileI < fileNodes
    /\ polls < MaxPolls
    /\ info' = "None"
    /\ fileI' = 0
    /\ polls' = polls + 1
    /\ UNCHANGED <<fileNodes, fileOpts, filePc, fileRoot, receipt, failedStage, fileRet,
                   submitted, taskInfo, procVars, notFileVars>>

\* wait_for_log_entry lines 354, 359: get_file_info_by_tx_seq or get_status
\* raises, and neither wait_for_log_entry nor upload_file catches it
WaitRpcRaises ==
    /\ filePc = "wait"
    /\ fileI < fileNodes
    /\ FailRaise("wait", "RpcError")
    /\ UNCHANGED <<fileNodes, fileOpts, fileI, polls, fileRoot, info, receipt, submitted, taskInfo, procVars, notFileVars>>

\* line 189 and split_tasks lines 457-463: shard_configs is the coroutine
\* object, check_replica raises TypeError
SplitTasksRaises ==
    /\ filePc = "split"
    /\ info # "None"
    /\ FailRaise("split", "TypeError")
    /\ UNCHANGED <<fileNodes, fileOpts, fileI, polls, fileRoot, info, receipt, submitted, taskInfo, procVars, notFileVars>>

\* a stage ends upload_file with (result, None)
Succeed ==
    /\ fileRet' = [kind |-> "return", txHash |-> TxHash, rootHash |-> fileRoot,
                    error |-> "None"]
    /\ filePc' = "done"

\* lines 189-194 with split_tasks run on the awaited list: it returns None
\* (a node without a valid shard config, or too few replicas)
SplitTasksNone ==
    /\ filePc = "split"
    /\ info # "None"
    /\ taskInfo' = info
    /\ FailReturn("split", TxHash, "Failed to get upload tasks")
    /\ UNCHANGED <<fileNodes, fileOpts, fileI, polls, fileRoot, info, receipt,
                   submitted, procVars, notFileVars>>

\* lines 189-198 with split_tasks run on the awaited list: no task to run
SplitTasksEmpty ==
    /\ filePc = "split"
    /\ info # "None"
    /\ taskInfo' = info
    /\ Succeed
    /\ UNCHANGED <<fileNodes, fileOpts, fileI, polls, fileRoot, info, receipt,
                   failedStage, submitted, procVars, notFileVars>>

\* lines 189-204 with split_tasks run on the awaited list: the tasks carry
\* info['tx']['seq'] and are handed to process_tasks_in_parallel
SplitTasksMade ==
    /\ filePc = "split"
    /\ info # "None"
    /\ taskInfo' = info
    /\ numTasks' \in 1..MaxProcTasks
    /\ filePc' = "process"
    /\ UNCHANGED <<fileNodes, fileOpts, fileI, polls, fileRoot, info, receipt,
                   failedStage, fileRet, submitted, results, callLog, notFileVars>>

\* the upload_segments_by_tx_seq calls made so far for task k (0-based)
RpcsOf(k) == Cardinality({j \in 1..Len(callLog) : callLog[j] = k})

\* what upload_task returns when it fails: an Exception, told apart by task
TaskError(k) == "task error " \o ToString(k)

IsException(result) == result # "result"

\* process_tasks_in_parallel, inside upload_task of the task the loop is at:
\* an upload_segments_by_tx_seq call that fails and is tried again
TaskRpcRetried ==
    /\ filePc = "process"
    /\ Len(results) < numTasks
    /\ RpcsOf(Len(results)) + 1 < MaxTaskRpcs
    /\ callLog' = Append(callLog, Len(results))
    /\ UNCHANGED <<fileNodes, fileOpts, filePc, fileI, polls, fileRoot, info, receipt,
                   failedStage, fileRet, submitted, taskInfo, numTasks, results,
                   notFileVars>>

\* process_tasks_in_parallel: upload_task of the task the loop is at returns
\* after a last upload_segments_by_tx_seq call, with the node's result or
\* with an Exception, and the result is appended
TaskReturns ==
    /\ filePc = "process"
    /\ Len(results) < numTasks
    /\ \E result \in {"result", TaskError(Len(results))} :
            results' = Append(results, result)
    /\ callLog' = Append(callLog, Len(results))
    /\ UNCHANGED <<fileNodes, fileOpts, filePc, fileI, polls, fileRoot, info, receipt,
                   failedStage, fileRet, submitted, taskInfo, numTasks, notFileVars>>

\* process_tasks_in_parallel: upload_task of the task the loop is at returns
\* the error of get_segment, before any call to the node
TaskReadFails ==
    /\ filePc = "process"
    /\ Len(results) < numTasks
    /\ RpcsOf(Len(results)) = 0
    /\ results' = Append(results, TaskError(Len(results)))
    /\ UNCHANGED <<fileNodes, fileOpts, filePc, fileI, polls, fileRoot, info, receipt,
                   failedStage, fileRet, submitted, taskInfo, numTasks, callLog,
                   notFileVars>>

\* a faulty variant of ScanResults: the last exception of the list is taken
ScanResults_Last(list) ==
    LET failed == {i \in 1..Len(list) : IsException(list[i])}
    IN IF failed = {} THEN "None"
       ELSE list[CHOOSE i \in failed : \A j \in failed : j <= i]

\* lines 204-209: the loop over results returns at the first exception
ScanResults(list) ==
    LET failed == {i \in 1..Len(list) : IsException(list[i])}
    IN IF failed = {} THEN "None"
       ELSE list[CHOOSE i \in failed : \A j \in failed : i <= j]

\* lines 204-209: a result of the tasks is an exception
ProcessTasksFail ==
    /\ filePc = "process"
    /\ Len(results) = numTasks
    /\ ScanResults(results) # "None"
    /\ FailReturn("process", TxHash, ScanResults(results))
    /\ UNCHANGED <<fileNodes, fileOpts, fileI, polls, fileRoot, info, receipt,
                   submitted, taskInfo, procVars, notFileVars>>

\* lines 204-215: every task gave a result, the final wait for finality starts
ProcessTasksOk ==
    /\ filePc = "process"
    /\ Len(results) = numTasks
    /\ ScanResults(results) = "None"
    /\ filePc' = "finality"
    /\ UNCHANGED <<fileNodes, fileOpts, fileI, polls, fileRoot, info, receipt,
                   failedStage, fileRet, submitted, taskInfo, procVars, notFileVars>>

\* lines 215-218: wait_for_log_entry(seq, True) returns
FinalityReached ==
    /\ filePc = "finality"
    /\ Succeed
    /\ UNCHANGED <<fileNodes, fileOpts, fileI, polls, fileRoot, info, receipt,
                   failedStage, submitted, taskInfo, procVars, notFileVars>>

\* line 215: an RPC of wait_for_log_entry(seq, True) raises
FinalityRaises ==
    /\ filePc = "finality"
    /\ fileNodes > 0
    /\ FailRaise("finality", "RpcError")
    /\ UNCHANGED <<fileNodes, fileOpts, fileI, polls, fileRoot, info, receipt,
                   submitted, taskInfo, procVars, notFileVars>>

NextUploadFile ==
    \/ MerkleTreeFails
    \/ MerkleTreeBuilt
    \/ FindExistingMiss
    \/ FindExistingHit
    \/ CreateSubmissionFails
    \/ CreateSubmissionOk
    \/ SubmitNoAccount
    \/ SubmitGasPriceRaises
    \/ SubmitGasPriceNone
    \/ SubmitFlowFails
    \/ SubmitOk
    \/ ProcessLogsEmpty
    \/ ProcessLogsOk
    \/ WaitNoNodes
    \/ WaitInfoAvailable
    \/ WaitInfoUnavailable
    \/ WaitRpcRaises
    \/ NoLogEntry
    \/ SplitTasksRaises
    \/ SplitTasksNone
    \/ SplitTasksEmpty
    \/ SplitTasksMade
    \/ TaskRpcRetried
    \/ TaskReturns
    \/ TaskReadFails
    \/ ProcessTasksFail
    \/ ProcessTasksOk
    \/ FinalityReached
    \/ FinalityRaises

(* ------------------------------------------------------------------ *)
(* core/uploader.py: wait_for_log_entry                                 *)
(* ------------------------------------------------------------------ *)
NoWaitRet == [kind |-> "-", info |-> "None"]

WaitIdle ==
    /\ waitNodes = 0
    /\ finality_required = FALSE
    /\ waitI = 0
    /\ roundLog = <<>>
    /\ waitPolls = 0
    /\ waitPc = "idle"
    /\ waitRet = NoWaitRet

\* a call wait_for_log_entry(tx_seq, finality_required) about to run:
\* upload_file passes False at line 179 and True at line 215
WaitInit ==
    /\ waitNodes \in 0..MaxWaitNodes
    /\ finality_required \in BOOLEAN
    /\ waitI = 0
    /\ roundLog = <<>>
    /\ waitPolls = 0
    /\ waitPc = "wait"
    /\ waitRet = NoWaitRet

\* what get_file_info_by_tx_seq gives: None, or an info with its finalized flag
FileInfos == {"None", "unfinalized", "finalized"}

\* a faulty variant of RoundFails: an unfinalized entry passes
RoundFails_IgnoresFinality(c_info) == c_info = "None"

\* lines 357 and 368: the answer of a node that ends the round with ok = False
RoundFails(c_info) ==
    \/ c_info = "None"
    \/ finality_required /\ c_info # "finalized"

\* the answers of the round under way, with the one just received
Answered(c_info) == IF waitI = 0 THEN <<c_info>> ELSE Append(roundLog, c_info)

\* lines 344-378 without a node: the for loop is empty, ok stays True and
\* the info returned is None
WaitNoClients ==
    /\ waitPc = "wait"
    /\ waitNodes = 0
    /\ waitRet' = [kind |-> "return", info |-> "None"]
    /\ waitPc' = "done"
    /\ UNCHANGED <<waitNodes, finality_required, waitI, roundLog, waitPolls, notWaitVars>>

\* lines 352-378: the node has the entry (finalized if that is required);
\* after the last node ok is still True and the last info is returned
WaitEntryReady ==
    /\ waitPc = "wait"
    /\ waitI < waitNodes
    /\ \E c_info \in FileInfos :
          /\ ~RoundFails(c_info)
          /\ roundLog' = Answered(c_info)
          /\ IF waitI + 1 < waitNodes
             THEN waitI' = waitI + 1 /\ UNCHANGED <<waitPc, waitRet>>
             ELSE /\ waitI' = waitI
                  /\ waitRet' = [kind |-> "return", info |-> c_info]
                  /\ waitPc' = "done"
    /\ UNCHANGED <<waitNodes, finality_required, waitPolls, notWaitVars>>

\* lines 357-375: the entry is missing (the status is read for the log
\* line), or it is not finalized while that is required: ok = False, the
\* round is left and the next one starts after delay(1)
WaitRoundFails ==
    /\ waitPc = "wait"
    /\ waitI < waitNodes
    /\ \E c_info \in FileInfos :
          /\ RoundFails(c_info)
          /\ roundLog' = Answered(c_info)
    /\ waitI' = 0
    /\ waitPolls' = IF waitPolls < MaxWaitPolls THEN waitPolls + 1 ELSE waitPolls
    /\ UNCHANGED <<waitNodes, finality_required, waitPc, waitRet, notWaitVars>>

\* lines 354, 359: get_file_info_by_tx_seq or get_status raises; nothing in
\* wait_for_log_entry catches it
WaitRaises ==
    /\ waitPc = "wait"
    /\ waitI < waitNodes
    /\ waitRet' = [kind |-> "raise", info |-> "None"]
    /\ waitPc' = "done"
    /\ UNCHANGED <<waitNodes, finality_required, waitI, roundLog, waitPolls, notWaitVars>>

NextWait ==
    \/ WaitNoClients
    \/ WaitEntryReady
    \/ WaitRoundFails
    \/ WaitRaises

(* ------------------------------------------------------------------ *)
(* Downloader (core/downloader.py)                                     *)
(* ------------------------------------------------------------------ *)
NoDlRet == [kind |-> "-", error |-> ""]

\* download_file returns None
DlOk == [kind |-> "None", error |-> ""]

\* download_file returns Exception(error)
DlError(error) == [kind |-> "error", error |-> error]

\* an exception leaves download_file
DlRaised(error) == [kind |-> "raise", error |-> error]

DownloadIdle ==
    /\ dlNodes = <<>>
    /\ dlInfo = [finalized |-> FALSE, size |-> 0, startEntryIndex |-> 0]
    /\ dlConfigs = NoConfigs
    /\ start_segment_index = 0
    /\ end_segment_index = 0
    /\ task_ind = 0
    /\ dlI = 0
    /\ dlTried = <<>>
    /\ dlFile = <<>>
    /\ dlPc = "idle"
    /\ dlRet = NoDlRet

\* the declared sizes of the files asked for: up to MaxDlSegments segments,
\* ending on a chunk boundary or inside a chunk
DownloadSizes ==
    {s * DEFAULT_SEGMENT_SIZE + r :
        s \in 0..(MaxDlSegments - 1), r \in {1, DEFAULT_CHUNK_SIZE, 513, DEFAULT_SEGMENT_SIZE}}

\* where the flow contract put the file: at 0, two entries before a segment
\* boundary, or on a segment boundary
StartEntries == {0, DEFAULT_SEGMENT_MAX_CHUNKS - 2, DEFAULT_SEGMENT_MAX_CHUNKS}

\* a call download_file(root, file_path) about to run on 0..MaxDlNodes nodes
DownloadInit ==
    /\ dlNodes \in SeqsUpTo(SplitConfigs, MaxDlNodes)
    /\ dlInfo \in [finalized : BOOLEAN, size : DownloadSizes, startEntryIndex : StartEntries]
    /\ dlConfigs = ConfigList(<<>>)
    /\ start_segment_index = 0
    /\ end_segment_index = 0
    /\ task_ind = 0
    /\ dlI = 0
    /\ dlTried = <<>>
    /\ dlFile = <<>>
    /\ dlPc = "query"
    /\ dlRet = NoDlRet

\* download_file returns or raises: nothing else of the downloader changes
DlLeave(ret) ==
    /\ dlRet' = ret
    /\ dlPc' = "done"
    /\ UNCHANGED <<dlNodes, dlInfo, dlConfigs, start_segment_index, end_segment_index,
                   task_ind, dlI, dlTried, dlFile, notDownloadVars>>

\* lines 69-71 with query_file lines 107-136: no node answered with a file info
DownloadQueryFails ==
    /\ dlPc = "query"
    /\ DlLeave(DlError("File not found on any storage node"))

\* lines 74-75: the info found is not finalized
DownloadNotFinalized ==
    /\ dlPc = "query"
    /\ ~dlInfo.finalized
    /\ DlLeave(DlError("File not finalized"))

\* lines 69-78: a finalized info was found
DownloadQueryOk ==
    /\ dlPc = "query"
    /\ dlInfo.finalized
    /\ dlPc' = "exist"
    /\ UNCHANGED <<dlNodes, dlInfo, dlConfigs, start_segment_index, end_segment_index,
                   task_ind, dlI, dlTried, dlFile, dlRet, notDownloadVars>>

\* lines 78-79: check_exist finds something at file_path
DownloadPathExists ==
    /\ dlPc = "exist"
    /\ DlLeave(DlError("Wrong path, provide a file path which does not exist."))

\* line 78: file_path is free
DownloadPathFree ==
    /\ dlPc = "exist"
    /\ dlPc' = "configs"
    /\ UNCHANGED <<dlNodes, dlInfo, dlConfigs, start_segment_index, end_segment_index,
                   task_ind, dlI, dlTried, dlFile, dlRet, notDownloadVars>>

\* lines 246-257 of download_file_helper: the segments the file lies in
HelperStart == dlInfo.startEntryIndex \div DEFAULT_SEGMENT_MAX_CHUNKS

HelperEnd ==
    (dlInfo.startEntryIndex + get_split_num(dlInfo.size, DEFAULT_CHUNK_SIZE) - 1)
        \div DEFAULT_SEGMENT_MAX_CHUNKS

\* lines 82-89, 238-262 and 178 as written: get_shard_configs is an async
\* function called without await, so shard_configs is a coroutine object, which
\* is not None; the first download_task takes len() of it and raises TypeError
DownloadUnawaited ==
    /\ dlPc = "configs"
    /\ dlConfigs' = Coroutine
    /\ start_segment_index' = HelperStart
    /\ end_segment_index' = HelperEnd
    /\ dlRet' = DlRaised("TypeError")
    /\ dlPc' = "done"
    /\ UNCHANGED <<dlNodes, dlInfo, task_ind, dlI, dlTried, dlFile, notDownloadVars>>

\* lines 82-84 run on the awaited list: a node reports an invalid shard config
DownloadNoConfigs ==
    /\ dlPc = "configs"
    /\ get_shard_configs(dlNodes) = NoConfigs
    /\ dlConfigs' = NoConfigs
    /\ dlRet' = DlError("Failed to get shard configs")
    /\ dlPc' = "done"
    /\ UNCHANGED <<dlNodes, dlInfo, start_segment_index, end_segment_index,
                   task_ind, dlI, dlTried, dlFile, notDownloadVars>>

\* lines 82-89 and 238-260 run on the awaited list: the helper begins task 0
DownloadEnterHelper ==
    /\ dlPc = "configs"
    /\ get_shard_configs(dlNodes) # NoConfigs
    /\ dlConfigs' = get_shard_configs(dlNodes)
    /\ start_segment_index' = HelperStart
    /\ end_segment_index' = HelperEnd
    /\ task_ind' = 0
    /\ dlI' = 0
    /\ dlTried' = <<>>
    /\ dlPc' = "task"
    /\ UNCHANGED <<dlNodes, dlInfo, dlFile, dlRet, notDownloadVars>>

\* download_task lines 166-172, with segment_offset = 0 (line 243)
TaskStartIndex == task_ind * DEFAULT_SEGMENT_MAX_CHUNKS

TaskEndIndex ==
    LET num_chunks == get_split_num(dlInfo.size, DEFAULT_CHUNK_SIZE)
        end_index == TaskStartIndex + DEFAULT_SEGMENT_MAX_CHUNKS
    IN IF end_index > num_chunks THEN num_chunks ELSE end_index

\* line 180
TaskNodeIndex == (task_ind + dlI) % Len(dlConfigs.configs)

\* lines 183-185, negated: the node's shard holds the segment
Covers(node_index) ==
    (start_segment_index + task_ind) % dlConfigs.configs[node_index + 1].numShard
        = dlConfigs.configs[node_index + 1].shardId

\* seg_array[0:stop] of a byte string of length len, by its length
SliceTo(len, stop) ==
    IF stop >= 0 THEN Min(stop, len)
    ELSE IF stop + len > 0 THEN stop + len ELSE 0

\* lines 203-207: the padding cut off the segment that counts as the last one
Paddings ==
    LET last_chunk_size == dlInfo.size % DEFAULT_CHUNK_SIZE
    IN IF start_segment_index + task_ind = end_segment_index /\ last_chunk_size > 0
       THEN DEFAULT_CHUNK_SIZE - last_chunk_size
       ELSE 0

\* what a node holding the file serves for chunks start_index..end_index-1,
\* by its length in bytes: nothing for an empty range
ServedBytes ==
    IF TaskEndIndex > TaskStartIndex
    THEN (TaskEndIndex - TaskStartIndex) * DEFAULT_CHUNK_SIZE
    ELSE 0

\* lines 178-186: the node's shard does not hold the segment
TaskSkipNode ==
    /\ dlPc = "task"
    /\ dlI < Len(dlConfigs.configs)
    /\ ~Covers(TaskNodeIndex)
    /\ dlI' = dlI + 1
    /\ UNCHANGED <<dlNodes, dlInfo, dlConfigs, start_segment_index, end_segment_index,
                   task_ind, dlTried, dlFile, dlPc, dlRet, notDownloadVars>>

\* lines 189-197: the node answers null
TaskNodeNull ==
    /\ dlPc = "task"
    /\ dlI < Len(dlConfigs.configs)
    /\ Covers(TaskNodeIndex)
    /\ dlTried' = Append(dlTried, [node |-> TaskNodeIndex, answer |-> "None"])
    /\ dlI' = dlI + 1
    /\ UNCHANGED <<dlNodes, dlInfo, dlConfigs, start_segment_index, end_segment_index,
                   task_ind, dlFile, dlPc, dlRet, notDownloadVars>>

\* lines 189-193: the RPC raises; nothing catches it up to download_file's caller
TaskNodeRaises ==
    /\ dlPc = "task"
    /\ dlI < Len(dlConfigs.configs)
    /\ Covers(TaskNodeIndex)
    /\ dlTried' = Append(dlTried, [node |-> TaskNodeIndex, answer |-> "raise"])
    /\ dlRet' = DlRaised("RPC")
    /\ dlPc' = "done"
    /\ UNCHANGED <<dlNodes, dlInfo, dlConfigs, start_segment_index, end_segment_index,
                   task_ind, dlI, dlFile, notDownloadVars>>

\* lines 189-210 and 271-279: the node serves the segment, which is cut if it
\* counts as the last one and appended to the file; the helper goes on to the
\* next task or returns None after the last
TaskNodeServes ==
    /\ dlPc = "task"
    /\ dlI < Len(dlConfigs.configs)
    /\ Covers(TaskNodeIndex)
    /\ dlTried' = IF task_ind + 1 < end_segment_index - start_segment_index + 1
                  THEN <<>>
                  ELSE Append(dlTried, [node |-> TaskNodeIndex, answer |-> "data"])
    /\ dlFile' = Append(dlFile, [segment |-> task_ind,
                                 served |-> ServedBytes,
                                 bytes |-> IF Paddings > 0
                                           THEN SliceTo(ServedBytes, ServedBytes - Paddings)
                                           ELSE ServedBytes])
    /\ IF task_ind + 1 < end_segment_index - start_segment_index + 1
       THEN /\ task_ind' = task_ind + 1
            /\ dlI' = 0
            /\ UNCHANGED <<dlPc, dlRet>>
       ELSE /\ dlRet' = DlOk
            /\ dlPc' = "done"
            /\ UNCHANGED <<task_ind, dlI>>
    /\ UNCHANGED <<dlNodes, dlInfo, dlConfigs, start_segment_index, end_segment_index,
                   notDownloadVars>>

\* lines 212-216 and 271-272: no node served the segment; the helper returns
\* the error, and file_path is left as it is
TaskNoNode ==
    /\ dlPc = "task"
    /\ dlI = Len(dlConfigs.configs)
    /\ DlLeave(DlError("No storage node holds segment"))

NextDownload ==
    \/ DownloadQueryFails
    \/ DownloadNotFinalized
    \/ DownloadQueryOk
    \/ DownloadPathExists
    \/ DownloadPathFree
    \/ DownloadUnawaited
    \/ DownloadNoConfigs
    \/ DownloadEnterHelper
    \/ TaskSkipNode
    \/ TaskNodeNull
    \/ TaskNodeRaises
    \/ TaskNodeServes
    \/ TaskNoNode

(* ------------------------------------------------------------------ *)
(* is_valid_config called on its own                                    *)
(* ------------------------------------------------------------------ *)
ConfigIdle ==
    /\ shardConfig = ShardConfig(0, 0)
    /\ validPc = "idle"
    /\ valid = FALSE

\* a call is_valid_config(config) about to run, on any pair within the bound
ConfigInit ==
    /\ shardConfig \in [numShard : 0..MaxConfigValue, shardId : 0..MaxConfigValue]
    /\ validPc = "call"
    /\ valid = FALSE

\* the call returns
IsValidConfig ==
    /\ validPc = "call"
    /\ valid' = is_valid_config(shardConfig)
    /\ validPc' = "done"
    /\ UNCHANGED <<shardConfig, notConfigVars>>

NextConfig == IsValidConfig

(* ------------------------------------------------------------------ *)
(* FileIterator (core/file.py)                                          *)
(* ------------------------------------------------------------------ *)
NoIterRet == [ok |-> FALSE, error |-> "-"]

IterIdle ==
    /\ it_file_size = 0
    /\ it_padded_size = 0
    /\ it_batch_size = 0
    /\ it_offset = 0
    /\ it_buf = <<>>
    /\ it_buf_size = 0
    /\ it_before = 0
    /\ it_reads = {}
    /\ it_ret = NoIterRet

\* the file sizes iterated: up to MaxIterChunks chunks, ending inside a chunk
\* or on a chunk boundary
IterFileSizes ==
    {k * DEFAULT_CHUNK_SIZE + r :
        k \in 0..(MaxIterChunks - 1), r \in {1, 100, DEFAULT_CHUNK_SIZE}}

\* FileIterator.__init__(file_size, 0, batch, flow_padding), lines 69-85
IterInit ==
    \E flow_padding \in BOOLEAN :
        /\ it_file_size \in IterFileSizes
        /\ it_batch_size \in {b * DEFAULT_CHUNK_SIZE : b \in 1..MaxBatchChunks}
        /\ it_padded_size =
              LET chunks == num_splits(it_file_size, DEFAULT_CHUNK_SIZE)
              IN IF flow_padding
                 THEN compute_padded_size(chunks)[1] * DEFAULT_CHUNK_SIZE
                 ELSE chunks * DEFAULT_CHUNK_SIZE
        /\ it_offset = 0
        /\ it_buf = [i \in 1..it_batch_size |-> 0]
        /\ it_buf_size = 0
        /\ it_before = 0
        /\ it_reads = {}
        /\ it_ret = NoIterRet

\* the byte of the file at position p, as the buffer holds it
FileByte(p) == p + 1

\* read_from_file(start, end) of MemData and FileFdIterator: the bytes read
\* and a zeroed buffer of batch_size bytes that begins with them
read_from_file(start, end) ==
    LET stop == IF end > it_file_size THEN it_file_size ELSE end
    IN [n |-> stop - start,
        buffer |-> [i \in 1..it_batch_size |->
                        IF i <= stop - start THEN FileByte(start + i - 1) ELSE 0]]

\* the buffer after padding_zeros(length) on a buffer filled up to buf_size
padding_zeros(buf, buf_size, length) ==
    [i \in 1..Len(buf) |-> IF i > buf_size /\ i <= buf_size + length THEN 0 ELSE buf[i]]

\* a faulty variant of expected_buf_size: always a whole batch
expected_buf_size_WholeBatch == it_batch_size

\* next() lines 135-139
expected_buf_size ==
    LET max_available_length == it_padded_size - it_offset
    IN IF max_available_length >= it_batch_size THEN it_batch_size
       ELSE max_available_length

\* next() lines 131-132: nothing is left
NextExhausted ==
    /\ it_offset >= it_padded_size
    /\ it_before' = it_offset
    /\ it_ret' = [ok |-> FALSE, error |-> "None"]
    /\ UNCHANGED <<it_file_size, it_padded_size, it_batch_size, it_offset, it_buf,
                   it_buf_size, it_reads, notIterVars>>

\* next() lines 142-147: the offset is in the padding, the buffer is filled
\* with zeros
NextPadding ==
    /\ it_offset < it_padded_size
    /\ it_offset >= it_file_size
    /\ it_before' = it_offset
    /\ it_buf' = padding_zeros(it_buf, 0, expected_buf_size)
    /\ it_buf_size' = expected_buf_size
    /\ it_offset' = it_offset + expected_buf_size
    /\ it_ret' = [ok |-> TRUE, error |-> "None"]
    /\ UNCHANGED <<it_file_size, it_padded_size, it_batch_size, it_reads, notIterVars>>

\* next() lines 142-167: the file is read, and the batch is filled up with
\* zeros when the file ends inside it
NextRead ==
    /\ it_offset < it_padded_size
    /\ it_offset < it_file_size
    /\ it_before' = it_offset
    /\ it_reads' = it_reads \cup {<<it_offset, it_offset + it_batch_size>>}
    /\ LET read == read_from_file(it_offset, it_offset + it_batch_size)
       IN IF read.n > expected_buf_size
          THEN /\ it_buf' = read.buffer
               /\ it_buf_size' = read.n
               /\ it_offset' = it_offset + read.n
               /\ it_ret' = [ok |-> FALSE, error |-> "raise"]
          ELSE /\ it_buf' = padding_zeros(read.buffer, read.n, expected_buf_size - read.n)
               /\ it_buf_size' = expected_buf_size
               /\ it_offset' = it_offset + expected_buf_size
               /\ it_ret' = [ok |-> TRUE, error |-> "None"]
    /\ UNCHANGED <<it_file_size, it_padded_size, it_batch_size, notIterVars>>

\* next() lines 150-156: read_from_file raises, next returns (False, e)
NextReadFails ==
    /\ it_offset < it_padded_size
    /\ it_offset < it_file_size
    /\ it_before' = it_offset
    /\ it_reads' = it_reads \cup {<<it_offset, it_offset + it_batch_size>>}
    /\ it_buf_size' = 0
    /\ it_ret' = [ok |-> FALSE, error |-> "read error"]
    /\ UNCHANGED <<it_file_size, it_padded_size, it_batch_size, it_offset, it_buf,
                   notIterVars>>

\* current(), lines 172-178
current == SubSeq(it_buf, 1, it_buf_size)

NextIter ==
    \/ NextExhausted
    \/ NextPadding
    \/ NextRead
    \/ NextReadFails

(* ------------------------------------------------------------------ *)
(* AbstractFile.split_nodes (core/file.py)                              *)
(* ------------------------------------------------------------------ *)
NodesIdle ==
    /\ sn_chunks = 0
    /\ sn_padded_chunks = 0
    /\ sn_next_chunk_size = 0
    /\ sn_nodes = <<>>
    /\ sn_pc = "idle"

\* a call split_nodes() on a file of 1..MaxChunkCount chunks, lines 453-461
NodesInit ==
    /\ sn_chunks \in 1..MaxChunkCount
    /\ sn_padded_chunks = compute_padded_size(sn_chunks)[1]
    /\ sn_next_chunk_size = compute_padded_size(sn_chunks)[2]
    /\ sn_nodes = <<>>
    /\ sn_pc = "loop"

\* a faulty variant of Fits: a node as large as what is left is not taken
Fits_Strict(padded_chunks, next_chunk_size) == padded_chunks > next_chunk_size

\* line 466
Fits(padded_chunks, next_chunk_size) == padded_chunks >= next_chunk_size

\* lines 464-471: one turn of the while loop
SplitNodesStep ==
    /\ sn_pc = "loop"
    /\ sn_padded_chunks > 0
    /\ IF Fits(sn_padded_chunks, sn_next_chunk_size)
       THEN /\ sn_padded_chunks' = sn_padded_chunks - sn_next_chunk_size
            /\ sn_nodes' = IF Len(sn_nodes) < MaxNodeList
                           THEN Append(sn_nodes, sn_next_chunk_size)
                           ELSE sn_nodes
       ELSE UNCHANGED <<sn_padded_chunks, sn_nodes>>
    /\ sn_next_chunk_size' = sn_next_chunk_size \div 2
    /\ UNCHANGED <<sn_chunks, sn_pc, notNodesVars>>

\* lines 464 and 474: nothing is left, nodes is returned
SplitNodesReturn ==
    /\ sn_pc = "loop"
    /\ sn_padded_chunks <= 0
    /\ sn_pc' = "done"
    /\ UNCHANGED <<sn_chunks, sn_padded_chunks, sn_next_chunk_size, sn_nodes, notNodesVars>>

NextNodes ==
    \/ SplitNodesStep
    \/ SplitNodesReturn

(* ------------------------------------------------------------------ *)
(* next_segment_index called on its own                                 *)
(* ------------------------------------------------------------------ *)
SegIndexIdle ==
    /\ nsiConfig = ShardConfig(0, 0)
    /\ nsiStart = 0
    /\ nsiPc = "idle"
    /\ nsiRet = 0

\* a call next_segment_index(config, start_index) about to run, for a valid
\* shard config and a start index within the bound
SegIndexInit ==
    /\ nsiConfig \in ValidConfigs
    /\ nsiStart \in 0..MaxStartIndex
    /\ nsiPc = "call"
    /\ nsiRet = 0

\* the call returns
NextSegmentIndex ==
    /\ nsiPc = "call"
    /\ nsiRet' = next_segment_index(nsiConfig, nsiStart)
    /\ nsiPc' = "done"
    /\ UNCHANGED <<nsiConfig, nsiStart, notSegIndexVars>>

NextSegIndex == NextSegmentIndex

(* ------------------------------------------------------------------ *)
(* core/node_selector.py: insert calls on one trie, in any order        *)
(* ------------------------------------------------------------------ *)
TrieIdle ==
    /\ trieRoot = NoTrie
    /\ trieExpected = 0
    /\ trieCalls = 0
    /\ trieInserted = FALSE

\* a trie as select_nodes line 150 makes it, SegmentTreeNode(1), and the
\* expected_replica the calls are going to pass
TrieInit ==
    /\ trieRoot = SegmentTreeNode(1)
    /\ trieExpected \in 0..MaxReplica
    /\ trieCalls = 0
    /\ trieInserted = FALSE

\* insert(root, num_shard, shard_id, expected_replica) for any valid config
TrieInsert ==
    /\ trieCalls < MaxInserts
    /\ \E c \in ValidConfigs :
         LET res == insert(trieRoot, c.numShard, c.shardId, trieExpected)
         IN /\ trieRoot' = res.node
            /\ trieInserted' = res.inserted
    /\ trieCalls' = trieCalls + 1
    /\ UNCHANGED <<trieExpected, notTrieVars>>

NextTrie == TrieInsert

(* ------------------------------------------------------------------ *)
(* Specifications                                                       *)
(* ------------------------------------------------------------------ *)
InitMerkle == MerkleIdle /\ SelectIdle /\ TaskIdle /\ SplitIdle /\ UploadIdle /\ WaitIdle /\ DownloadIdle /\ ConfigIdle /\ IterIdle /\ NodesIdle /\ SegIndexIdle /\ TrieIdle

SpecMerkle == InitMerkle /\ [][NextMerkle]_vars

InitSelect == MerkleIdle /\ SelectInit /\ TaskIdle /\ SplitIdle /\ UploadIdle /\ WaitIdle /\ DownloadIdle /\ ConfigIdle /\ IterIdle /\ NodesIdle /\ SegIndexIdle /\ TrieIdle

SpecSelect == InitSelect /\ [][NextSelect]_vars

InitTask == MerkleIdle /\ SelectIdle /\ TaskIdle /\ SplitIdle /\ UploadIdle /\ WaitIdle /\ DownloadIdle /\ ConfigIdle /\ IterIdle /\ NodesIdle /\ SegIndexIdle /\ TrieIdle

SpecTask == InitTask /\ [][NextTask]_vars

InitSplit == MerkleIdle /\ SelectIdle /\ TaskIdle /\ SplitInit /\ UploadIdle /\ WaitIdle /\ DownloadIdle /\ ConfigIdle /\ IterIdle /\ NodesIdle /\ SegIndexIdle /\ TrieIdle

SpecSplit == InitSplit /\ [][NextSplit]_vars

InitUploadFile == MerkleIdle /\ SelectIdle /\ TaskIdle /\ SplitIdle /\ UploadInit /\ WaitIdle /\ DownloadIdle /\ ConfigIdle /\ IterIdle /\ NodesIdle /\ SegIndexIdle /\ TrieIdle

SpecUploadFile == InitUploadFile /\ [][NextUploadFile]_vars

\* upload_task is straight-line code around a loop: it keeps running
SpecTaskFair == SpecTask /\ WF_vars(NextTask)

InitWait == MerkleIdle /\ SelectIdle /\ TaskIdle /\ SplitIdle /\ UploadIdle /\ WaitInit /\ DownloadIdle /\ ConfigIdle /\ IterIdle /\ NodesIdle /\ SegIndexIdle /\ TrieIdle

SpecWait == InitWait /\ [][NextWait]_vars

\* wait_for_log_entry keeps polling: its loop is never left waiting
SpecWaitFair == SpecWait /\ WF_vars(NextWait)

InitDownload == MerkleIdle /\ SelectIdle /\ TaskIdle /\ SplitIdle /\ UploadIdle /\ WaitIdle /\ DownloadInit /\ ConfigIdle /\ IterIdle /\ NodesIdle /\ SegIndexIdle /\ TrieIdle

SpecDownload == InitDownload /\ [][NextDownload]_vars

InitConfig == MerkleIdle /\ SelectIdle /\ TaskIdle /\ SplitIdle /\ UploadIdle /\ WaitIdle /\ DownloadIdle /\ ConfigInit /\ IterIdle /\ NodesIdle /\ SegIndexIdle /\ TrieIdle

SpecConfig == InitConfig /\ [][NextConfig]_vars

InitIter == MerkleIdle /\ SelectIdle /\ TaskIdle /\ SplitIdle /\ UploadIdle /\ WaitIdle /\ DownloadIdle /\ ConfigIdle /\ IterInit /\ NodesIdle /\ SegIndexIdle /\ TrieIdle

SpecIter == InitIter /\ [][NextIter]_vars

InitNodes == MerkleIdle /\ SelectIdle /\ TaskIdle /\ SplitIdle /\ UploadIdle /\ WaitIdle /\ DownloadIdle /\ ConfigIdle /\ IterIdle /\ NodesInit /\ SegIndexIdle /\ TrieIdle

SpecNodes == InitNodes /\ [][NextNodes]_vars

\* the loop of split_nodes goes on running
SpecNodesFair == SpecNodes /\ WF_vars(NextNodes)

InitSegIndex == MerkleIdle /\ SelectIdle /\ TaskIdle /\ SplitIdle /\ UploadIdle /\ WaitIdle /\ DownloadIdle /\ ConfigIdle /\ IterIdle /\ NodesIdle /\ SegIndexInit /\ TrieIdle

SpecSegIndex == InitSegIndex /\ [][NextSegIndex]_vars

InitTrie == MerkleIdle /\ SelectIdle /\ TaskIdle /\ SplitIdle /\ UploadIdle /\ WaitIdle /\ DownloadIdle /\ ConfigIdle /\ IterIdle /\ NodesIdle /\ SegIndexIdle /\ TrieInit

SpecTrie == InitTrie /\ [][NextTrie]_vars

(* ------------------------------------------------------------------ *)
(* Merkle properties                                                    *)
(* ------------------------------------------------------------------ *)

\* C2: on a built tree with n >= 1 leaves, proof_at(i) returns a proof for
\* every i in [0, n), calculate_proof_position(n) of that proof is i, and
\* validate(root_hash, content_i, i, n) on it returns no error.
C2_ProofValidates ==
    (proof.kind # "none" /\ Fresh) =>
        /\ proof.kind = "proof"
        /\ calculate_proof_position(proof, Len(leaves)) = proofIdx
        /\ verdict.tamper = "none" => verdict.result = "OK"

\* a genuine proof of the last (carried) leaf of a five-leaf tree validated
C2_Witness ==
    /\ Fresh /\ Len(leaves) = 5 /\ proofIdx = 4
    /\ verdict.tamper = "none" /\ verdict.result = "OK"

\* C3: validating a genuine proof with a different content gives
\* CONTENT_MISMATCH, with a different root hash ROOT_MISMATCH, with one
\* path bit flipped POSITION_MISMATCH or VALIDATION_FAILURE; no tampered
\* validation succeeds (single-leaf trees included).
C3_NoFalseAccept ==
    /\ verdict.tamper = "content" => verdict.result = "CONTENT_MISMATCH"
    /\ verdict.tamper = "root" => verdict.result = "ROOT_MISMATCH"
    /\ verdict.tamper = "path" =>
           verdict.result \in {"POSITION_MISMATCH", "VALIDATION_FAILURE"}

\* the hashes of the leaves, in order
LeafHashes(ls) == [k \in 1..Len(ls) |-> ls[k].hash]

\* a new MerkleTree given these leaf hashes in order and built once
FreshBuilt(hashes) ==
    build([leaves |-> [k \in 1..Len(hashes) |-> LeafNode(hashes[k])],
           inner |-> <<>>, root |-> NoNode])

\* what holds between the calls on one tree
RootFollowsBuild ==
    /\ (root = NoNode) <=> (builtLen <= 0)
    /\ builtLen = 0 => buildRet = "None"
    /\ (builtLen > 0 /\ builtLen = Len(leaves)) =>
          /\ buildRet = "self"
          /\ root_hash(Tree) = root_hash(FreshBuilt(LeafHashes(leaves)))

\* what a call leaves as it was: a build the leaf hashes, a build with no
\* leaf added since the last one the root hash
BuildKeeps ==
    /\ (builtLen' # builtLen \/ builds' # builds \/ Len(leaves') = Len(leaves)) =>
          LeafHashes(leaves') = LeafHashes(leaves)
    /\ (builtLen > 0 /\ builtLen = Len(leaves) /\ Len(leaves') = Len(leaves)) =>
          root_hash(Tree)' = root_hash(Tree)

\* C21: on one MerkleTree under any sequence of add_leaf, add_leaf_by_hash
\* and build calls, the root is None until the first build on a non-empty
\* tree (a build on an empty tree returns None and leaves it None), build
\* never changes the order or the hashes of the leaves, and after every
\* build the root hash is that of a new tree built once from the same leaf
\* hashes, so a build with no leaf added leaves the root hash unchanged.
C21_BuildDeterministic == []RootFollowsBuild /\ [][BuildKeeps]_vars

\* a five-leaf tree built for at least the second time
C21_Witness ==
    /\ builds >= 2 /\ builtLen = 5 /\ Len(leaves) = 5
    /\ buildRet = "self"
    /\ root_hash(Tree) = root_hash(FreshBuilt(LeafHashes(leaves)))

(* ------------------------------------------------------------------ *)
(* Node-selection properties                                            *)
(* ------------------------------------------------------------------ *)

\* a node with this config holds segment index i
Holds(config, i) == i % config.numShard = config.shardId

\* how many entries of the list hold segment index i
Coverage(list, i) == Cardinality({k \in 1..Len(list) : Holds(list[k], i)})

\* one period of every shard partition within the bounds: whether an index
\* is held depends only on the index modulo MaxNumShard
SegmentIndices == 0..(MaxNumShard - 1)

RemoveAt(list, k) == SubSeq(list, 1, k - 1) \o SubSeq(list, k + 1, Len(list))

RECURSIVE IsSubList(_, _)
IsSubList(a, b) ==
    IF a = <<>> THEN TRUE
    ELSE IF b = <<>> THEN FALSE
    ELSE IF Head(a) = Head(b) THEN IsSubList(Tail(a), Tail(b))
    ELSE IsSubList(a, Tail(b))

IsAscending(list) == \A k \in 1..(Len(list) - 1) : ~KeyLess(list[k + 1], list[k])

Count(list, c) == Cardinality({k \in 1..Len(list) : list[k] = c})

SameNodes(a, b) == \A c \in ValidConfigs : Count(a, c) = Count(b, c)

\* C4: a successful select_nodes(nodes, r), r >= 1, returns a sub-list of
\* the candidates in (numShard, shardId) ascending order, and every segment
\* index is held by at least r of the returned nodes.
C4_SelectionSound ==
    (selPc = "done" /\ selRet.ok) =>
        /\ expected_replica >= 1
        /\ SameNodes(nodes, candidates) /\ IsAscending(nodes)
        /\ IsSubList(selRet.nodes, nodes)
        /\ \A i \in SegmentIndices : Coverage(selRet.nodes, i) >= expected_replica

\* two replicas met by a whole-space node plus the two halves
C4_Witness ==
    /\ selPc = "done" /\ selRet.ok /\ expected_replica = 2
    /\ Len(selRet.nodes) = 3 /\ Len(candidates) = 4

\* C5: after a successful selection removing any single returned node
\* leaves some segment index held by fewer than r of the remaining ones.
C5_SelectionMinimal ==
    (selPc = "done" /\ selRet.ok) =>
        \A k \in 1..Len(selRet.nodes) :
            \E i \in SegmentIndices :
                Coverage(RemoveAt(selRet.nodes, k), i) < expected_replica

\* a success that left a candidate out of the returned list
C5_Witness ==
    /\ selPc = "done" /\ selRet.ok
    /\ Len(selRet.nodes) >= 2 /\ Len(selRet.nodes) < Len(candidates)
    /\ selI + 1 = Len(nodes)

\* C6: for r >= 1 select_nodes, and check_replica, succeed iff the whole
\* candidate set holds every segment index at least r times.
C6_SelectionComplete ==
    (selPc = "done" /\ expected_replica >= 1) =>
        /\ selRet.ok <=> \A i \in SegmentIndices : Coverage(candidates, i) >= expected_replica
        /\ check_replica(candidates, expected_replica) = selRet.ok

\* two replicas from a whole-space node and half-space nodes: a success that
\* needed the pushdown of the root's pending tag
C6_Witness ==
    /\ selPc = "done" /\ expected_replica = 2 /\ selRet.ok
    /\ \E k \in 1..Len(candidates) : candidates[k].numShard = 1
    /\ \E k \in 1..Len(candidates) : candidates[k].numShard = 2

\* C7: a failed select_nodes returns exactly ([], False): at once, with no
\* candidate inspected, when expected_replica == 0, and when the candidates
\* are exhausted, whatever had been accepted along the way.
C7_FailureReturnsEmpty ==
    /\ (selPc = "done" /\ ~selRet.ok) => selRet.nodes = <<>>
    /\ (selPc = "done" /\ expected_replica = 0) =>
           selRet = NoReturn /\ segRoot = NoTrie /\ nodes = candidates /\ selI = 0
    /\ (selPc = "done" /\ expected_replica # 0 /\ segRoot.replica < expected_replica) =>
           selRet = NoReturn /\ selI = Len(nodes)

\* candidates exhausted after some of them had been accepted
C7_Witness ==
    /\ selPc = "done" /\ ~selRet.ok /\ selRet.nodes = <<>>
    /\ expected_replica # 0 /\ Len(selected_nodes) >= 2

(* ------------------------------------------------------------------ *)
(* Properties of upload_task                                            *)
(* ------------------------------------------------------------------ *)
\* every response so far was a transient failure
AllTransient(log) ==
    \A k \in 1..Len(log) :
        /\ log[k].kind # "result"
        /\ is_retryable_error(RaisedBy(log[k]))
        /\ ~is_already_uploaded_error(RaisedBy(log[k]))

TaskSucceeded == taskPc = "done" /\ taskResult.kind \in {"result", "zero"}

TaskFailed == taskPc = "done" /\ taskResult.kind = "error"

\* the call under way failed to read a segment, before any attempt
ReadFailed ==
    AssembledFor([task |-> upload_task, chunks |-> fileChunks, readFail |-> readFailAt,
                  opts |-> retry_opts]).err

RetryBound ==
    /\ Len(rpcLog) <= max_retries(retry_opts)
    /\ taskPc = "rpc" => attempt = Len(rpcLog) /\ attempt < max_retries(retry_opts)
    /\ (taskPc = "done" /\ AllTransient(rpcLog) /\ (rpcLog # <<>> \/ ~ReadFailed))
          => TaskFailed /\ Len(rpcLog) = max_retries(retry_opts)
    /\ (taskPc = "done" /\ rpcLog # <<>> /\ rpcLog[Len(rpcLog)].kind = "result")
          => TaskSucceeded

\* C8: one task issues at most maxRetries (TooManyDataRetries, default 3)
\* bulk-upload calls and then terminates; if every attempt fails with a
\* transient error the task fails after exactly maxRetries attempts, and a
\* successful attempt after transient failures makes the task succeed.
C8_BoundedRetry == []RetryBound /\ <>(taskPc = "done")

\* three transient failures under the default options: two backoff waits,
\* then failure
C8_Witness ==
    /\ TaskFailed
    /\ ~retry_opts.given
    /\ Len(rpcLog) = DefaultTooManyDataRetries
    /\ AllTransient(rpcLog)
    /\ rpcLog[1].kind = "null"
    /\ waits = <<DefaultInterval, 2 * DefaultInterval>>
    /\ taskResult.error.wrapped

LastResponse == rpcLog'[Len(rpcLog')]

\* C9: an RPC error matching the already-uploaded pattern ends the task as
\* a success with no further attempt, on whichever attempt it occurs; an
\* error matching neither that pattern nor a transient one ends the task
\* as a failure carrying that error, with no retry and no backoff wait.
C9_ErrorClassification ==
    [][/\ taskPc = "done" => rpcLog' = rpcLog
       /\ (rpcLog' # rpcLog /\ LastResponse.kind = "error") =>
            /\ is_already_uploaded_error(LastResponse) =>
                  /\ taskPc' = "done"
                  /\ taskResult'.kind = "zero"
                  /\ waits' = waits
            /\ (/\ ~is_already_uploaded_error(LastResponse)
                /\ "too many data writing" \notin LastResponse.patterns
                /\ "returned null for upload segments" \notin LastResponse.patterns) =>
                  /\ taskPc' = "done"
                  /\ taskResult' = [kind |-> "error", error |-> LastResponse]
                  /\ waits' = waits
                  /\ attempt' = attempt]_vars

\* an already-uploaded error on a later attempt, after a transient failure
C9_Witness ==
    /\ TaskSucceeded
    /\ taskResult.kind = "zero"
    /\ Len(rpcLog) >= 2
    /\ AllTransient(SubSeq(rpcLog, 1, Len(rpcLog) - 1))
    /\ rpcLog[Len(rpcLog)].kind = "error"
    /\ is_already_uploaded_error(rpcLog[Len(rpcLog)])

\* the index of the segment that holds the last chunk of the file
LastSegment == (fileChunks - 1) \div DEFAULT_SEGMENT_MAX_CHUNKS

\* the segment indices of the task under way that lie in the file
TaskIndices ==
    {i \in 0..LastSegment :
        \E j \in 0..(upload_task.taskSize - 1) :
            i = upload_task.segIndex + j * upload_task.numShard}

\* C24: within one upload task the segments are assembled in strictly
\* ascending index order, numShard apart, at most taskSize of them; the
\* assembly stops at the segment that holds the last chunk of the file, and
\* that segment is cut to the chunks the file has; an error of the assembly
\* ends the task with that error before any RPC call is made.
C24_AssemblyInOrder ==
    taskPc # "idle" =>
        /\ Len(segments) <= upload_task.taskSize
        /\ \A k \in 1..Len(segments) :
              /\ segments[k].index = upload_task.segIndex + (k - 1) * upload_task.numShard
              /\ segments[k].index <= LastSegment
              /\ segments[k].index = LastSegment => k = Len(segments)
              /\ segments[k].chunks =
                    IF segments[k].index = LastSegment
                    THEN fileChunks - LastSegment * DEFAULT_SEGMENT_MAX_CHUNKS
                    ELSE DEFAULT_SEGMENT_MAX_CHUNKS
        /\ IF readFailAt \in TaskIndices
           THEN /\ taskPc = "done"
                /\ taskResult.kind = "error"
                /\ rpcLog = <<>>
           ELSE Len(segments) = Cardinality(TaskIndices)

\* segments 0 and 2 of a file of two segments and one chunk, the last one
\* cut to that chunk, handed to the RPC
C24_Witness ==
    /\ rpcLog # <<>>
    /\ fileChunks = 2 * DEFAULT_SEGMENT_MAX_CHUNKS + 1
    /\ segments = <<[index |-> 0, chunks |-> DEFAULT_SEGMENT_MAX_CHUNKS],
                    [index |-> 2, chunks |-> 1]>>

(* ------------------------------------------------------------------ *)
(* Properties of split_tasks                                            *)
(* ------------------------------------------------------------------ *)
RECURSIVE TasksOf(_, _)
\* the tasks of one node in a flattened list, in the order they appear
TasksOf(tasks, index) ==
    IF tasks = <<>> THEN <<>>
    ELSE (IF Head(tasks).clientIndex = index THEN <<Head(tasks)>> ELSE <<>>)
         \o TasksOf(Tail(tasks), index)

\* C1: the flattened list split_tasks returns contains every task of every
\* per-node list exactly once, and the tasks of one node appear in it in
\* their original order, whatever the lengths of the per-node lists.
C1_NoTaskLost ==
    (splitPc = "done" /\ splitRet.kind = "list" /\ upload_tasks # <<>>) =>
        \A i \in 1..Len(upload_tasks) :
            TasksOf(splitRet.tasks, upload_tasks[i][1].clientIndex) = upload_tasks[i]

(* ------------------------------------------------------------------ *)
(* Properties of upload_file                                            *)
(* ------------------------------------------------------------------ *)
\* C10: once the Merkle tree is built, a failure in any later stage makes
\* upload_file return (result, error) with error set and result.rootHash
\* equal to the tree's root hash; no exception leaves the call.
C10_FailureReturnsError ==
    (filePc = "done" /\ fileRoot # "" /\ failedStage # "none") =>
        /\ fileRet.kind = "return"
        /\ fileRet.error # "None"
        /\ fileRet.rootHash = fileRoot

(* ------------------------------------------------------------------ *)
(* Properties of wait_for_log_entry                                     *)
(* ------------------------------------------------------------------ *)
\* C11: after every task has succeeded, the finality poll of upload_file
\* (wait_for_log_entry with finality_required true, line 215) does not block
\* on its result: the call ends, and upload_file returns, whether or not the
\* nodes ever report the entry finalized (the entry itself being there).
C11_FinalPollReturns ==
    finality_required =>
        <>(waitPc = "done" \/ (roundLog # <<>> /\ roundLog[Len(roundLog)] = "None"))

\* C12: wait_for_log_entry returns only at the end of a round in which
\* every node had the entry (and had it finalized, if that is required); it
\* does not return while an answer of the round is missing or unfinalized,
\* and however many rounds have failed it starts another one.
C12_ReturnsOnlyWhenAllReady ==
    LET Ready(a) == a # "None" /\ (finality_required => a = "finalized")
    IN /\ waitRet.kind = "return" =>
             /\ Len(roundLog) = waitNodes
             /\ \A k \in 1..Len(roundLog) : Ready(roundLog[k])
       /\ (\E k \in 1..Len(roundLog) : ~Ready(roundLog[k])) =>
             /\ waitRet.kind # "return"
             /\ waitRet.kind = "-" =>
                   (waitPc = "wait" /\ waitI = 0 /\ ENABLED WaitRoundFails)

\* the call returns after MaxWaitPolls failed rounds, finality required
C12_Witness ==
    /\ waitRet.kind = "return"
    /\ finality_required
    /\ waitNodes = MaxWaitNodes
    /\ waitPolls = MaxWaitPolls
    /\ \A k \in 1..Len(roundLog) : roundLog[k] = "finalized"

(* ------------------------------------------------------------------ *)
(* Downloader properties                                               *)
(* ------------------------------------------------------------------ *)
RECURSIVE SumBytes(_)
SumBytes(writes) ==
    IF writes = <<>> THEN 0 ELSE writes[1].bytes + SumBytes(Tail(writes))

\* the call has ended on a segment fetch that failed
FetchFailed ==
    /\ dlPc = "done"
    /\ \/ dlRet = DlError("No storage node holds segment")
       \/ dlRet = DlRaised("RPC")

\* C13: when the fetch of a segment fails, download_file returns an error and
\* file_path holds no file made of the segments written before the failure
C13_NoTruncatedFile ==
    FetchFailed => (dlRet.kind = "error" /\ dlFile = <<>>)

\* C14: after a successful download the bytes appended number exactly the
\* declared size; the segments were written in ascending order, each once, all
\* but the last as served, and the last without its chunk padding
C14_ExactBytes ==
    (dlPc = "done" /\ dlRet = DlOk) =>
        /\ SumBytes(dlFile) = dlInfo.size
        /\ \A k \in 1..Len(dlFile) :
            /\ dlFile[k].segment = k - 1
            /\ k < Len(dlFile) => dlFile[k].bytes = dlFile[k].served
        /\ dlFile[Len(dlFile)].bytes =
              dlFile[Len(dlFile)].served
                - (IF dlInfo.size % 256 > 0 THEN 256 - (dlInfo.size % 256) ELSE 0)

(* ------------------------------------------------------------------ *)
(* Properties of split_tasks: which nodes are skipped                   *)
(* ------------------------------------------------------------------ *)
\* the latest answer of a node to get_file_info was "finalized"
ReportsFinalized(index) ==
    \E k \in 1..Len(splitReports) :
        /\ splitReports[k].node = index
        /\ splitReports[k].finalized
        /\ \A j \in (k + 1)..Len(splitReports) : splitReports[j].node # index

\* the segment indices of the file, counted from its first segment, that the
\* shard of a node holds
SegmentsDue(index) ==
    LET range == segment_range(splitInfo.startEntryIndex, splitInfo.size)
        config == shard_configs.configs[index + 1]
    IN {i - range[1] : i \in {j \in range[1]..range[2] : j % config.numShard = config.shardId}}

\* the segment indices the tasks of a list stand for
SegmentsTasked(tasks) ==
    LET range == segment_range(splitInfo.startEntryIndex, splitInfo.size)
    IN {i \in 0..(range[2] - range[1]) :
            \E k \in 1..Len(tasks) : \E n \in 0..(tasks[k].taskSize - 1) :
                i = tasks[k].segIndex + n * tasks[k].numShard}

\* C15: split_tasks skips a node only when that node itself reports the file
\* finalized; every node that does not report it finalized receives tasks that
\* cover all segment indices of its shard, whatever the other nodes report
C15_SkipsOnlyFinalized ==
    (splitPc = "done" /\ splitRet.kind = "list") =>
        \A index \in 0..(Len(shard_configs.configs) - 1) :
            ~ReportsFinalized(index) =>
                SegmentsTasked(TasksOf(splitRet.tasks, index)) = SegmentsDue(index)

\* the segment indices one task stands for: its start index, then steps of
\* numShard, at most taskSize of them, up to the last segment of the file
TaskSegments(task) == SegmentsTasked(<<task>>)

\* C23: for each node that receives tasks from split_tasks, the segment
\* indices its tasks stand for are exactly the indices of the file's segment
\* range that its shard holds: each of them belongs to exactly one task of
\* the node and no other index belongs to any.
C23_TasksPartitionShard ==
    (splitPc = "done" /\ splitRet.kind = "list") =>
        \A index \in 0..(Len(shard_configs.configs) - 1) :
            LET tasks == TasksOf(splitRet.tasks, index) IN
            tasks # <<>> =>
                /\ \A i \in SegmentsDue(index) :
                        Cardinality({k \in 1..Len(tasks) : i \in TaskSegments(tasks[k])}) = 1
                /\ \A k \in 1..Len(tasks) : TaskSegments(tasks[k]) \subseteq SegmentsDue(index)

C17_ValidIff ==
    validPc = "done" =>
        (valid <=> /\ shardConfig.numShard > 0
                   /\ IsPowerOfTwo(shardConfig.numShard)
                   /\ shardConfig.shardId < shardConfig.numShard)

\* a config with the largest shard id of eight shards was found valid
C17_Witness ==
    /\ validPc = "done"
    /\ valid
    /\ shardConfig = ShardConfig(8, 7)

(* ------------------------------------------------------------------ *)
(* Properties of Proof.validate: the order of the checks                *)
(* ------------------------------------------------------------------ *)
\* the first check that fails on a call, in the order format, content, root,
\* position, recomputed root
FirstFailing(call, num_leaf_nodes) ==
    LET lemma == call.p.lemma
        path == call.p.path
    IN IF (Len(path) = 0 /\ Len(lemma) # 1) \/ (Len(path) # 0 /\ Len(lemma) # Len(path) + 2)
       THEN "WRONG_FORMAT"
       ELSE IF keccak256_hash(call.content) # lemma[1] THEN "CONTENT_MISMATCH"
       ELSE IF Len(lemma) > 1 /\ call.root_hash # lemma[Len(lemma)] THEN "ROOT_MISMATCH"
       ELSE IF calculate_proof_position(call.p, num_leaf_nodes) # call.position
            THEN "POSITION_MISMATCH"
       ELSE IF ~validate_root(call.p) THEN "VALIDATION_FAILURE"
       ELSE "OK"

\* C18: validate reports the first check that fails, in the order
\* WRONG_FORMAT, CONTENT_MISMATCH, ROOT_MISMATCH (only when the lemma is
\* longer than one), POSITION_MISMATCH, VALIDATION_FAILURE, and every proof
\* made by proof_at on a built tree has the right format
C18_FirstFailingCheck ==
    /\ (proof.kind = "proof" /\ Fresh) => validate_format(proof)
    /\ (verdict.tamper # "-" /\ proof.kind = "proof" /\ Fresh) =>
            verdict.result = FirstFailing(ValidateCall(verdict.tamper, verdict.arg),
                                          Len(leaves))

(* ------------------------------------------------------------------ *)
(* Properties of FileIterator                                           *)
(* ------------------------------------------------------------------ *)
\* C19: every successful next() advances the offset by len(current()), which
\* is min(batch, padded_size - offset before); the batch holds the file's
\* bytes at their positions and zeros from position file_size on; the source
\* is never read at or past file_size; and next() returns (False, None) once
\* the offset has reached padded_size, leaving the offset there.
C19_BatchesCoverPaddedFile ==
    /\ it_offset <= it_padded_size
    /\ \A read \in it_reads : read[1] < it_file_size
    /\ (it_ret # NoIterRet /\ it_before >= it_padded_size) =>
            (it_ret = [ok |-> FALSE, error |-> "None"] /\ it_offset = it_before)
    /\ it_ret.ok =>
            /\ Len(current) = it_offset - it_before
            /\ Len(current) = Min(it_batch_size, it_padded_size - it_before)
            /\ \A i \in 1..Len(current) :
                  current[i] = IF it_before + i - 1 < it_file_size
                               THEN it_before + i
                               ELSE 0

\* after the file was read, a last batch of padding zeros only was returned
C19_Witness ==
    /\ it_ret.ok
    /\ it_offset = it_padded_size
    /\ it_before >= it_file_size
    /\ Len(current) = it_batch_size
    /\ it_reads # {}

(* ------------------------------------------------------------------ *)
(* Properties of split_nodes                                            *)
(* ------------------------------------------------------------------ *)
RECURSIVE SumOf(_)
SumOf(list) == IF list = <<>> THEN 0 ELSE Head(list) + SumOf(Tail(list))

\* what split_nodes has returned: strictly descending powers of two that add
\* up to the padded chunk count, which lies between the chunk count and its
\* next power of two and is the chunk count itself when that is a power of two
NodesReturned ==
    sn_pc = "done" =>
        LET padded == compute_padded_size(sn_chunks)[1] IN
        /\ \A k \in 1..Len(sn_nodes) : IsPowerOfTwo(sn_nodes[k])
        /\ \A k \in 1..(Len(sn_nodes) - 1) : sn_nodes[k] > sn_nodes[k + 1]
        /\ SumOf(sn_nodes) = padded
        /\ padded >= sn_chunks
        /\ padded <= Pow2(CeilLog2(sn_chunks))
        /\ IsPowerOfTwo(sn_chunks) => padded = sn_chunks

\* C20: for every chunk count c >= 1 split_nodes terminates, and returns
\* strictly descending powers of two whose sum is the padded chunk count of
\* compute_padded_size(c); that count is at least c, at most the next power of
\* two of c, and c itself when c is a power of two
C20_SplitNodesDecomposes == []NodesReturned /\ <>(sn_pc = "done")

\* 21 chunks, padded to 22, were split into nodes of 16, 4 and 2 chunks
C20_Witness ==
    /\ sn_pc = "done"
    /\ sn_chunks = 21
    /\ sn_nodes = <<16, 4, 2>>

(* ------------------------------------------------------------------ *)
(* next_segment_index properties                                        *)
(* ------------------------------------------------------------------ *)

\* C22: for every valid shard config and every start index s >= 0,
\* next_segment_index returns the smallest index i >= s with
\* i mod numShard = shardId, and s itself when numShard < 2.
C22_SmallestResponsible ==
    nsiPc = "done" =>
        /\ nsiRet >= nsiStart
        /\ nsiRet % nsiConfig.numShard = nsiConfig.shardId
        /\ \A i \in nsiStart..(nsiRet - 1) : i % nsiConfig.numShard # nsiConfig.shardId
        /\ nsiConfig.numShard < 2 => nsiRet = nsiStart

\* start index 6 for shard 1 of 4: the call returns 9
C22_Witness ==
    /\ nsiPc = "done"
    /\ nsiConfig = ShardConfig(4, 1)
    /\ nsiStart = 6
    /\ nsiRet = 9

(* ------------------------------------------------------------------ *)
(* Properties of download_task: the order of the nodes                  *)
(* ------------------------------------------------------------------ *)
RECURSIVE CoveringAmong(_)
\* of the first n nodes in the order (t + i) mod N, i = 0..n-1, those whose
\* shard holds the segment of the task under way
CoveringAmong(n) ==
    IF n = 0 THEN <<>>
    ELSE LET node == (task_ind + n - 1) % Len(dlConfigs.configs)
         IN CoveringAmong(n - 1)
              \o (IF Holds(dlConfigs.configs[node + 1], start_segment_index + task_ind)
                  THEN <<node>> ELSE <<>>)

\* the nodes asked so far for the segment, none of which served it
AskedInOrder(n) ==
    /\ Len(dlTried) = Len(CoveringAmong(n))
    /\ \A k \in 1..Len(dlTried) :
          dlTried[k] = [node |-> CoveringAmong(n)[k], answer |-> "None"]

\* the segments of the tasks before the one under way are written, no other
WrittenBefore == \A k \in 1..Len(dlFile) : dlFile[k].segment < task_ind

TaskOutcome ==
    /\ dlRet.kind # "raise"
    /\ dlPc = "task" => AskedInOrder(dlI) /\ WrittenBefore
    /\ dlRet = DlError("No storage node holds segment") =>
          AskedInOrder(Len(dlConfigs.configs)) /\ WrittenBefore
    /\ (dlRet = DlOk /\ dlTried # <<>>) =>
          LET n == Len(dlTried) IN
          /\ dlTried[n].answer = "data"
          /\ dlFile[Len(dlFile)].segment = task_ind
          /\ \E i \in 1..Len(dlConfigs.configs) :
                /\ Len(CoveringAmong(i)) = n
                /\ CoveringAmong(i)[n] = dlTried[n].node
                /\ \A k \in 1..(n - 1) :
                      dlTried[k] = [node |-> CoveringAmong(i)[k], answer |-> "None"]

\* C25: for segment task t with N nodes, download_task tries the nodes in
\* the order (t + i) mod N, i = 0..N-1, skips every node whose shard config
\* does not cover the segment, returns the data of the first covering node
\* that serves it (a covering node that answers null is passed over), and
\* returns an error with empty data, nothing written, when no covering node
\* serves it.
C25_FirstCoveringNodeServes == TaskOutcome

(* ------------------------------------------------------------------ *)
(* Properties of wait_for_log_entry: the wait ends                      *)
(* ------------------------------------------------------------------ *)
\* no node fails to report the entry (finalized if required) in this step
NodesReport == ~WaitRoundFails /\ ~WaitRaises

\* the call has returned an info, which is not None if there is a node
ReturnedInfo ==
    /\ waitPc = "done"
    /\ waitRet.kind = "return"
    /\ waitNodes > 0 => waitRet.info # "None"

\* without a node the call returns None in its first round, and upload_file
\* returns the error "Failed to get log entry"
ReturnsNoneWithoutNodes ==
    /\ (waitNodes = 0 /\ waitPc = "done") =>
          (waitRet = [kind |-> "return", info |-> "None"] /\ waitPolls = 0)
    /\ (filePc = "done" /\ fileNodes = 0 /\ failedStage = "wait") =>
          (fileRet.kind = "return" /\ fileRet.error = "Failed to get log entry")

\* C26: if from some point on every node always reports the log entry
\* (finalized when finality is required), wait_for_log_entry eventually
\* returns a file info that is not None; with an empty node list it returns
\* after one round with no info, which upload_file reports as a failure to
\* get the log entry.
C26_WaitEventuallyReturns ==
    /\ (<>[][NodesReport]_vars) => <>ReturnedInfo
    /\ []ReturnsNoneWithoutNodes

(* ------------------------------------------------------------------ *)
(* Properties of the segment trie under insert                          *)
(* ------------------------------------------------------------------ *)
\* the smaller of the replica counts of the two children of a node
LeastChildReplica(node) ==
    CHOOSE r \in {node.childs[1].replica, node.childs[2].replica} :
        \A i \in 1..2 : r <= node.childs[i].replica

RECURSIVE TrieConsistent(_)
\* at the node and everywhere below it: the replica count is the pending
\* tags plus the least child count, or the pending tags alone without
\* children, and a child splits its parent's shards in two
TrieConsistent(node) ==
    IF node.childs = <<>>
    THEN node.replica = node.lazy_tags
    ELSE /\ Len(node.childs) = 2
         /\ node.replica = node.lazy_tags + LeastChildReplica(node)
         /\ \A i \in 1..2 :
              /\ node.childs[i].num_shard = 2 * node.num_shard
              /\ TrieConsistent(node.childs[i])

\* the root after the calls made so far
TrieRootSound ==
    /\ TrieConsistent(trieRoot)
    /\ trieRoot.replica <= trieExpected

\* one insert call, seen from the root
TrieRootGrows ==
    /\ trieRoot'.replica >= trieRoot.replica
    /\ ~trieInserted' => trieRoot'.replica = trieRoot.replica

\* C27: after any sequence of insert calls, in any order, on a trie rooted
\* at num_shard = 1, every node's replica is its lazy_tags plus the least
\* replica of its children (its lazy_tags alone without children), every
\* child has twice its parent's num_shard, the root's replica never exceeds
\* expected_replica and never decreases, and a rejected insert leaves it
\* unchanged.
C27_TrieInvariant == []TrieRootSound /\ [][TrieRootGrows]_vars

\* an insert rejected below the root, at a half that had taken over the
\* root's tag and holds two replicas while the other half holds one
C27_Witness ==
    /\ trieCalls >= 3 /\ ~trieInserted
    /\ trieRoot.replica < trieExpected
    /\ trieRoot.childs # <<>>
    /\ \E i \in 1..2 : trieRoot.childs[i].lazy_tags = 2
    /\ trieRoot.childs[1].replica # trieRoot.childs[2].replica

(* ------------------------------------------------------------------ *)
(* Properties of Proof.validate: totality                               *)
(* ------------------------------------------------------------------ *)
\* what a call of validate may return: None or one of the five ProofErrors
ValidateResults ==
    {"OK", "WRONG_FORMAT", "CONTENT_MISMATCH", "ROOT_MISMATCH", "POSITION_MISMATCH",
     "VALIDATION_FAILURE"}

\* C28: for every proof, root hash, content, position and claimed
\* num_leaf_nodes >= 1 validate returns None or one of the five
\* ProofErrors and never raises; a leaf count that runs out along the path
\* is reported as POSITION_MISMATCH.
C28_ValidateTotal ==
    (verdict.tamper # "-" /\ Len(leaves) >= 1) =>
        /\ verdict.result \in ValidateResults
        /\ calculate_proof_position(ValidateCall(verdict.tamper, verdict.arg).p,
                                    Len(leaves)) = PositionRaised =>
               verdict.result \in {"WRONG_FORMAT", "CONTENT_MISMATCH", "ROOT_MISMATCH",
                                   "POSITION_MISMATCH"}

(* ------------------------------------------------------------------ *)
(* Properties of MerkleTree.build: the shape of the tree                *)
(* ------------------------------------------------------------------ *)
RECURSIVE LeavesUnder(_)
\* the leaves below a node, read left to right
LeavesUnder(ref) ==
    IF ref < 0 THEN <<ref>>
    ELSE LeavesUnder(inner[ref].left) \o LeavesUnder(inner[ref].right)

\* the leaves in the order they were added
InsertionOrder == [k \in 1..Len(leaves) |-> -k]

\* the largest power of two below m, 2^(ceil(log2 m) - 1) for m >= 2
LeftShare(m) ==
    CHOOSE p \in 1..m : p < m /\ 2 * p >= m /\ \E d \in 0..m : Pow2(d) = p

\* inner node j has the hash of its children's hashes, is the parent of
\* both, and its left subtree has the left share of its leaves
WellFormed(j) ==
    LET node == inner[j] IN
    /\ node.left # NoNode /\ node.right # NoNode
    /\ node.hash = <<NodeAt(Tree, node.left).hash, NodeAt(Tree, node.right).hash>>
    /\ NodeAt(Tree, node.left).parent = j
    /\ NodeAt(Tree, node.right).parent = j
    /\ Len(LeavesUnder(node.left)) = LeftShare(Len(LeavesUnder(j)))

\* C29: in a built tree of n >= 2 leaves the leaves read left to right
\* are in insertion order, every internal node's hash is combine(left.hash,
\* right.hash) with both children's parent pointing back to it, and the
\* left subtree of a node over m leaves holds 2^(ceil(log2 m) - 1) of them.
C29_TreeShape ==
    (builtLen = Len(leaves) /\ Len(leaves) >= 2) =>
        /\ root > 0
        /\ inner[root].parent = NoNode
        /\ LeavesUnder(root) = InsertionOrder
        /\ Len(inner) = Len(leaves) - 1
        /\ \A j \in 1..Len(inner) : WellFormed(j)

\* six leaves: the pair carried as the odd node of its level ends up as
\* the right child of the root, next to a left subtree of four leaves
C29_Witness ==
    /\ builtLen = 6 /\ Len(leaves) = 6 /\ root > 0
    /\ Len(LeavesUnder(inner[root].left)) = 4
    /\ LeavesUnder(inner[root].right) = <<-5, -6>>

(* ------------------------------------------------------------------ *)
(* Properties of upload_file: the upload tasks                          *)
(* ------------------------------------------------------------------ *)
\* the tasks (0-based) whose upload_task returned an Exception
FailedTasks == {k \in 0..(Len(results) - 1) : results[k + 1] # "result"}

\* the first of them in list order
FirstFailedTask == CHOOSE k \in FailedTasks : \A other \in FailedTasks : k <= other

\* calls to the nodes never go back to an earlier task, the results stand
\* in list order, the stage is left only with a result of every task, and
\* with a failed task it is left by returning the first failed task's error
TasksInListOrder ==
    /\ \A a, b \in 1..Len(callLog) : a < b => callLog[a] <= callLog[b]
    /\ \A k \in 1..Len(results) :
            results[k] \in {"result", "task error " \o ToString(k - 1)}
    /\ (numTasks > 0 /\ filePc # "process") => Len(results) = numTasks
    /\ (FailedTasks # {} /\ filePc # "process") =>
            /\ filePc = "done"
            /\ failedStage = "process"
            /\ fileRet = [kind |-> "return", txHash |-> TxHash, rootHash |-> fileRoot,
                          error |-> "task error " \o ToString(FirstFailedTask)]

\* a call to a node is made for the task that follows the results so far
CallsAfterEarlierTasks ==
    callLog' # callLog =>
        /\ Len(callLog') = Len(callLog) + 1
        /\ callLog'[Len(callLog')] = Len(results)

====
